---------------------------- MODULE Spec2Model ----------------------------
(***************************************************************************)
(* Model of the Digital Diggaz playlist generator: the generate-playlist   *)
(* handler (src/unnamed/part_004), the Spotify client (src/lib/spotify.js) *)
(* and the helpers it uses from src/lib/music-detector.js (music-detector, *)
(* mongodb and date-utils sections).                                       *)
(*                                                                         *)
(* Strings whose characters matter (release dates, "YYYY-MM" keys, the     *)
(* Retry-After header) are sequences of one-character strings.  URLs are   *)
(* sequences of tokens (scheme, host, path separator, identifier, trailing *)
(* punctuation): the regular expressions of music-detector.js are matched  *)
(* token by token.                                                         *)
(***************************************************************************)
EXTENDS Integers, Sequences, FiniteSets, TLC

\* null / undefined for atoms, and for character or token strings.
Null == "null"
NoStr == <<"undefined">>

(***************************** bounds **************************************)
\* Longest list of links stored for a month.
MaxLinks == 2
\* Most items in one search response.
MaxItems == 2
\* Longest release-date string drawn for the date-utils specification.
MaxDateLen == 10

(************************* program constants *******************************)
POST_PROCESS_DELAY_MS == 200
REQUEST_DELAY_MS == 100
TRACKS_PER_BATCH == 100
TOKEN_BUFFER_MS == 60000
DEFAULT_RETRY_AFTER == 5
SEARCH_LIMIT == 10

(***************************** strings *************************************)
Min(a, b) == IF a < b THEN a ELSE b

\* String.prototype.startsWith
StartsWith(s, p) == Len(s) >= Len(p) /\ SubSeq(s, 1, Len(p)) = p

DigitChars == <<"0", "1", "2", "3", "4", "5", "6", "7", "8", "9">>

\* String(n) for n >= 0
RECURSIVE ToDigits(_)
ToDigits(n) ==
    IF n < 10 THEN <<DigitChars[n + 1]>>
    ELSE ToDigits(n \div 10) \o <<DigitChars[(n % 10) + 1]>>

\* s.padStart(2, '0')
PadStart2(s) == IF Len(s) >= 2 THEN s ELSE <<"0">> \o s

DigitValue(c) == CHOOSE d \in 0..9 : DigitChars[d + 1] = c

\* parseInt(s, 10) on a string of decimal digits
RECURSIVE ParseInt(_)
ParseInt(s) ==
    IF Len(s) = 0 THEN 0
    ELSE 10 * ParseInt(SubSeq(s, 1, Len(s) - 1)) + DigitValue(s[Len(s)])

(***************************** date-utils **********************************)
MONTH_NAMES ==
    <<"January", "February", "March", "April", "May", "June", "July",
      "August", "September", "October", "November", "December">>

\* Mutation: the year is not stepped back in January.
getPreviousMonthBounds_sameYear(now) ==
    LET prevMonth == IF now.month = 0 THEN 11 ELSE now.month - 1
    IN  [year      |-> now.year,
         month     |-> prevMonth + 1,
         monthName |-> MONTH_NAMES[prevMonth + 1],
         yearMonth |-> ToDigits(now.year) \o <<"-">> \o PadStart2(ToDigits(prevMonth + 1))]

\* now = [year, month] with month 0-indexed, as getUTCFullYear/getUTCMonth.
getPreviousMonthBounds(now) ==
    LET currentMonth == now.month
        currentYear  == now.year
        prevMonth == IF currentMonth = 0 THEN 11 ELSE currentMonth - 1
        prevYear  == IF currentMonth = 0 THEN currentYear - 1 ELSE currentYear
    IN  [year      |-> prevYear,
         month     |-> prevMonth + 1,
         monthName |-> MONTH_NAMES[prevMonth + 1],
         yearMonth |-> ToDigits(prevYear) \o <<"-">> \o PadStart2(ToDigits(prevMonth + 1))]

\* Mutation: the month is compared at year precision only.
isReleasedInMonth_yearOnly(releaseDate, targetYearMonth) ==
    IF releaseDate = NoStr \/ releaseDate = <<>> THEN FALSE
    ELSE StartsWith(releaseDate, SubSeq(targetYearMonth, 1, 4))

\* A release date is NoStr (undefined) or a character sequence.
isReleasedInMonth(releaseDate, targetYearMonth) ==
    IF releaseDate = NoStr \/ releaseDate = <<>>
       \/ targetYearMonth = NoStr \/ targetYearMonth = <<>> THEN FALSE
    ELSE IF Len(releaseDate) < 7 THEN FALSE
    ELSE StartsWith(releaseDate, targetYearMonth)

(*************************** music-detector ********************************)
Schemes == {"https://", "http://"}
TrailingPunct == {".", ",", ";", ":", "!", "?", ")"}
Whitespace == {" "}

\* Identifier tokens by character class: [\w]+ , [\w-]+ , [\d]+
DigitIds == {"12345"}
WordIds == {"ABC123", "dQw4"} \cup DigitIds
DashIds == {"daft-punk"} \cup WordIds

\* One entry per regular expression of MUSIC_URL_PATTERNS: the host tokens
\* it accepts and the token sequences that may follow the host.
MUSIC_URL_PATTERNS ==
    <<[hosts |-> {"youtube.com", "www.youtube.com"},
       tails |-> {<<"/watch?v=", i>> : i \in DashIds}],
      [hosts |-> {"youtu.be"},
       tails |-> {<<"/", i>> : i \in DashIds}],
      [hosts |-> {"soundcloud.com", "www.soundcloud.com"},
       tails |-> {<<"/", i, "/", j>> : i \in DashIds, j \in DashIds}],
      [hosts |-> {"open.spotify.com"},
       tails |-> {<<"/track/", i>> : i \in WordIds}],
      [hosts |-> {"spotify.com", "www.spotify.com"},
       tails |-> {<<"/track/", i>> : i \in WordIds}],
      [hosts |-> {"bandcamp.com", "daft-punk.bandcamp.com"},
       tails |-> {<<s, i>> : s \in {"/track/", "/album/"}, i \in DashIds}],
      [hosts |-> {"music.apple.com", "www.music.apple.com"},
       tails |-> {<<"/", i>> : i \in WordIds}],
      [hosts |-> {"tidal.com", "www.tidal.com"},
       tails |-> {<<s, i>> : s \in {"/track/", "/album/", "/browse/track/",
                                     "/browse/album/"}, i \in DigitIds}],
      [hosts |-> {"deezer.com", "www.deezer.com"},
       tails |-> {<<s, i>> : s \in {"/track/", "/album/"}, i \in DigitIds}]>>

\* toLowerCase on a token (the /i flag of the patterns).
Lower(tok) == IF tok = "OPEN.SPOTIFY.COM" THEN "open.spotify.com" ELSE tok

\* pattern.test(url): the pattern is not anchored, it may match at any offset.
PatternTest(pattern, url) ==
    \E i \in 1..Len(url) :
        /\ url[i] \in Schemes
        /\ i + 1 <= Len(url)
        /\ Lower(url[i + 1]) \in pattern.hosts
        /\ \E t \in pattern.tails :
              /\ i + 1 + Len(t) <= Len(url)
              /\ SubSeq(url, i + 2, i + 1 + Len(t)) = t

isMusicUrl(url) ==
    \E k \in 1..Len(MUSIC_URL_PATTERNS) : PatternTest(MUSIC_URL_PATTERNS[k], url)

\* lowerUrl.includes(domain), decided per token.
Includes(url, domains) == \E i \in 1..Len(url) : Lower(url[i]) \in domains

detectPlatform(url) ==
    IF Includes(url, {"youtube.com", "www.youtube.com", "youtu.be"}) THEN "youtube"
    ELSE IF Includes(url, {"soundcloud.com", "www.soundcloud.com"}) THEN "soundcloud"
    ELSE IF Includes(url, {"spotify.com", "www.spotify.com", "open.spotify.com"}) THEN "spotify"
    ELSE IF Includes(url, {"bandcamp.com", "daft-punk.bandcamp.com"}) THEN "bandcamp"
    ELSE IF Includes(url, {"music.apple.com", "www.music.apple.com"}) THEN "apple_music"
    ELSE IF Includes(url, {"tidal.com", "www.tidal.com"}) THEN "tidal"
    ELSE IF Includes(url, {"deezer.com", "www.deezer.com"}) THEN "deezer"
    ELSE "unknown"

\* url.match(/spotify\.com\/track\/(\w+)/i): the first match's group, or Null.
extractSpotifyTrackId(url) ==
    LET hits == {i \in 1..Len(url) :
                    /\ Lower(url[i]) \in {"spotify.com", "www.spotify.com", "open.spotify.com"}
                    /\ i + 2 <= Len(url)
                    /\ url[i + 1] = "/track/"
                    /\ url[i + 2] \in WordIds}
    IN  IF hits = {} THEN Null
        ELSE url[(CHOOSE i \in hits : \A j \in hits : i <= j) + 2]

\* url.trim()
RECURSIVE Trim(_)
Trim(url) ==
    IF Len(url) > 0 /\ url[1] \in Whitespace THEN Trim(Tail(url))
    ELSE IF Len(url) > 0 /\ url[Len(url)] \in Whitespace
         THEN Trim(SubSeq(url, 1, Len(url) - 1))
    ELSE url

\* url.replace(/[.,;:!?)]+$/, '')
RECURSIVE StripTrailingPunct(_)
StripTrailingPunct(url) ==
    IF Len(url) > 0 /\ url[Len(url)] \in TrailingPunct
    THEN StripTrailingPunct(SubSeq(url, 1, Len(url) - 1))
    ELSE url

\* GENERIC_URL_PATTERN: a scheme and then one or more characters that are
\* neither whitespace nor one of <>"{}|\^`[] ; a token is such characters
\* unless it is whitespace.
UrlChars(tok) == tok \notin Whitespace

\* Index of the last token of the match that starts with the scheme at i.
RECURSIVE MatchEnd(_, _)
MatchEnd(text, j) ==
    IF j + 1 <= Len(text) /\ UrlChars(text[j + 1]) THEN MatchEnd(text, j + 1) ELSE j

\* text.match(GENERIC_URL_PATTERN) from token i on: the matches in order,
\* each greedy, the search resuming after each.
RECURSIVE MatchAll(_, _)
MatchAll(text, i) ==
    IF i > Len(text) THEN <<>>
    ELSE IF text[i] \in Schemes /\ i + 1 <= Len(text) /\ UrlChars(text[i + 1])
         THEN <<SubSeq(text, i, MatchEnd(text, i))>> \o MatchAll(text, MatchEnd(text, i) + 1)
         ELSE MatchAll(text, i + 1)

\* [...new Set(urls)]: first occurrences, in order.
RECURSIVE SetOrder(_)
SetOrder(urls) ==
    IF Len(urls) = 0 THEN <<>>
    ELSE LET front == SetOrder(SubSeq(urls, 1, Len(urls) - 1))
             last == urls[Len(urls)] IN
         IF \E k \in 1..Len(front) : front[k] = last THEN front
         ELSE Append(front, last)

\* extractUrls(text); NoStr is a text that is null or not a string.
extractUrls(text) ==
    IF text = NoStr \/ text = <<>> THEN <<>>
    ELSE LET urls == SetOrder(MatchAll(text, 1)) IN
         [k \in 1..Len(urls) |-> StripTrailingPunct(urls[k])]

\* Hyphen, en dash and em dash, the latter two written "--" and "---".
Dashes == {"-", "--", "---"}
\* A phrase cleanTextForSearch removes.
NoisePhrases == {"(Official Video)"}

\* .replace(/\s+/g, ' ')
RECURSIVE CollapseBlanks(_)
CollapseBlanks(text) ==
    IF Len(text) = 0 THEN <<>>
    ELSE IF text[1] \in Whitespace
         THEN IF Len(text) >= 2 /\ text[2] \in Whitespace
              THEN CollapseBlanks(Tail(text))
              ELSE <<" ">> \o CollapseBlanks(Tail(text))
         ELSE <<text[1]>> \o CollapseBlanks(Tail(text))

\* cleanTextForSearch(text): noise removed, whitespace collapsed, trimmed.
cleanTextForSearch(text) ==
    IF text = NoStr \/ text = <<>> THEN <<>>
    ELSE Trim(CollapseBlanks(SelectSeq(text, LAMBDA tok : tok \notin NoisePhrases)))

\* Greedy \s* from token i: the index of the first token that is no blank.
RECURSIVE SkipBlanks(_, _)
SkipBlanks(c, i) ==
    IF i <= Len(c) /\ c[i] \in Whitespace THEN SkipBlanks(c, i + 1) ELSE i

\* Where the last group (.+)$ starts when \s* or \s+ before it began at
\* token i and must leave it a character, keeping one blank if keep.
LastGroupStart(c, i, keep) ==
    LET r == SkipBlanks(c, i) IN
    IF r <= Len(c) THEN r ELSE IF keep THEN Len(c) + 1 ELSE Len(c)

\* /^(.+?)\s*[-\u2013\u2014]\s*(.+)$/ with (.+?) taking tokens 1..q.
DashMatchAt(c, q) ==
    LET d == SkipBlanks(c, q + 1) IN
    d <= Len(c) /\ c[d] \in Dashes /\ d < Len(c)

\* /^(.+?)\s+by\s+(.+)$/i with (.+?) taking tokens 1..q.
ByMatchAt(c, q) ==
    LET b == SkipBlanks(c, q + 1) IN
    /\ b > q + 1 /\ b <= Len(c) /\ c[b] \in {"by", "By", "BY"}
    /\ SkipBlanks(c, b + 1) > b + 1
    /\ LastGroupStart(c, b + 1, SkipBlanks(c, b + 1) = b + 2) <= Len(c)

\* cleaned.match(pattern): no match, or the two groups of the match whose
\* lazy first group is shortest.
DashMatch(c) ==
    LET Q == {q \in 1..Len(c) : DashMatchAt(c, q)} IN
    IF Q = {} THEN <<>>
    ELSE LET q == CHOOSE x \in Q : \A y \in Q : x <= y
             d == SkipBlanks(c, q + 1) IN
         <<SubSeq(c, 1, q), SubSeq(c, LastGroupStart(c, d + 1, FALSE), Len(c))>>
ByMatch(c) ==
    LET Q == {q \in 1..Len(c) : ByMatchAt(c, q)} IN
    IF Q = {} THEN <<>>
    ELSE LET q == CHOOSE x \in Q : \A y \in Q : x <= y
             b == SkipBlanks(c, q + 1) IN
         <<SubSeq(c, 1, q), SubSeq(c, LastGroupStart(c, b + 1, FALSE), Len(c))>>

MusicInfo(artist, track, query) == [artist |-> artist, track |-> track, query |-> query]

\* Mutation: the "by" rule is tried before the dash rule.
extractMusicInfo_byFirst(text) ==
    LET cleaned == cleanTextForSearch(text) IN
    IF ByMatch(cleaned) # <<>>
    THEN MusicInfo(Trim(ByMatch(cleaned)[2]), Trim(ByMatch(cleaned)[1]), cleaned)
    ELSE IF DashMatch(cleaned) # <<>>
    THEN MusicInfo(Trim(DashMatch(cleaned)[1]), Trim(DashMatch(cleaned)[2]), cleaned)
    ELSE MusicInfo(NoStr, NoStr, cleaned)

\* extractMusicInfo(text)
extractMusicInfo(text) ==
    LET cleaned == cleanTextForSearch(text)
        dashMatch == DashMatch(cleaned)
        byMatch == ByMatch(cleaned) IN
    IF dashMatch # <<>>
    THEN MusicInfo(Trim(dashMatch[1]), Trim(dashMatch[2]), cleaned)
    ELSE IF byMatch # <<>>
    THEN MusicInfo(Trim(byMatch[2]), Trim(byMatch[1]), cleaned)
    ELSE MusicInfo(NoStr, NoStr, cleaned)

\* new URL(s) succeeds: a scheme followed by a non-empty host.
UrlParses(url) == Len(url) >= 2 /\ url[1] \in Schemes /\ url[2] \notin Whitespace

Candidate(url, platform, id) ==
    [url |-> url, platform |-> platform, spotifyTrackId |-> id,
     searchQuery |-> url, artist |-> NoStr, track |-> NoStr, source |-> "url"]

\* The list of candidates of one submitted link (none or one).
extractMusicUrls(url) ==
    IF url = NoStr \/ url = <<>> THEN <<>>
    ELSE LET cleanedUrl == StripTrailingPunct(Trim(url)) IN
         IF ~isMusicUrl(cleanedUrl)
         THEN IF UrlParses(cleanedUrl)
              THEN <<Candidate(cleanedUrl, "unknown", Null)>>
              ELSE <<>>
         ELSE LET platform == detectPlatform(cleanedUrl)
                  spotifyTrackId == IF platform = "spotify"
                                    THEN extractSpotifyTrackId(cleanedUrl)
                                    ELSE Null
              IN  <<Candidate(cleanedUrl, platform, spotifyTrackId)>>

\* Number of characters of a token (String.length); a blank, a dash, a
\* slash and a punctuation mark are one character.
TokenLength(tok) ==
    CASE tok = "Check" -> 5 [] tok = "out" -> 3 [] tok = "Daft" -> 4
      [] tok = "Punk" -> 4 [] tok = "Around" -> 6 [] tok = "The" -> 3
      [] tok = "World" -> 5 [] tok = "Hi" -> 2 [] tok = "by" -> 2
      [] tok = "https://" -> 8 [] tok = "http://" -> 7
      [] tok = "open.spotify.com" -> 16 [] tok = "/track/" -> 7
      [] tok = "ABC123" -> 6 [] tok = "youtu.be" -> 8 [] tok = "dQw4" -> 4
      [] tok = "example.com" -> 11 [] tok = "(Official Video)" -> 16
      [] OTHER -> 1
RECURSIVE StringLength(_)
StringLength(text) ==
    IF Len(text) = 0 THEN 0 ELSE TokenLength(Head(text)) + StringLength(Tail(text))

\* text.substring(0, n), cut at a token boundary.
RECURSIVE Substring(_, _)
Substring(text, n) ==
    IF Len(text) = 0 \/ TokenLength(Head(text)) > n THEN <<>>
    ELSE <<Head(text)>> \o Substring(Tail(text), n - TokenLength(Head(text)))

\* A value that is undefined, null or '' is falsy.
Falsy(str) == str = NoStr \/ str = <<>>

PostCandidate(url, platform, id, searchQuery, musicInfo, source) ==
    [url |-> url, platform |-> platform, spotifyTrackId |-> id,
     searchQuery |-> searchQuery, artist |-> musicInfo.artist,
     track |-> musicInfo.track, source |-> source]

\* The loop over the URLs of a post: one candidate per music URL.
RECURSIVE UrlCandidates(_, _)
UrlCandidates(urls, text) ==
    IF Len(urls) = 0 THEN <<>>
    ELSE LET url == Head(urls)
             platform == detectPlatform(url)
             spotifyTrackId == IF platform = "spotify"
                               THEN extractSpotifyTrackId(url) ELSE Null
             musicInfo == extractMusicInfo(text) IN
         (IF isMusicUrl(url)
          THEN <<PostCandidate(url, platform, spotifyTrackId,
                               IF musicInfo.query # <<>> THEN musicInfo.query
                               ELSE Substring(text, 100),
                               musicInfo, "url")>>
          ELSE <<>>) \o UrlCandidates(Tail(urls), text)

\* extractMusicFromPost(post)
extractMusicFromPost(post) ==
    LET text == IF ~Falsy(post.message) THEN post.message
                ELSE IF ~Falsy(post.story) THEN post.story ELSE <<>>
        found == extractUrls(text)
        urls == IF ~Falsy(post.link) /\ ~\E k \in 1..Len(found) : found[k] = post.link
                THEN Append(found, post.link) ELSE found
        candidates == UrlCandidates(urls, text)
        musicInfo == extractMusicInfo(text) IN
    IF Len(candidates) = 0 /\ StringLength(text) > 5
       /\ (musicInfo.artist # NoStr \/ musicInfo.track # NoStr
           \/ StringLength(musicInfo.query) > 10)
    THEN <<PostCandidate(NoStr, "text_only", Null, musicInfo.query, musicInfo, "text")>>
    ELSE candidates

(******************************* mongodb ***********************************)
REQUIRED_FIELDS ==
    <<"SPOTIFY_CLIENT_ID", "SPOTIFY_CLIENT_SECRET", "SPOTIFY_USER_ID", "SPOTIFY_REFRESH_TOKEN">>

\* The stored configuration documents the run may find: none, a document
\* without vars, and documents whose vars hold "" for a field not set.
FullVars ==
    [SPOTIFY_CLIENT_ID |-> "cid", SPOTIFY_CLIENT_SECRET |-> "csecret",
     SPOTIFY_USER_ID |-> "user1", SPOTIFY_REFRESH_TOKEN |-> "rtok"]
NoDoc == [found |-> FALSE, hasVars |-> FALSE, vars |-> FullVars]
ConfigDocs ==
    {NoDoc,
     [found |-> TRUE, hasVars |-> FALSE, vars |-> FullVars],
     [found |-> TRUE, hasVars |-> TRUE, vars |-> FullVars],
     [found |-> TRUE, hasVars |-> TRUE, vars |-> [FullVars EXCEPT !.SPOTIFY_REFRESH_TOKEN = ""]],
     [found |-> TRUE, hasVars |-> TRUE, vars |-> [FullVars EXCEPT !.SPOTIFY_USER_ID = ""]]}

NoConfig == [clientId |-> "", clientSecret |-> "", refreshToken |-> "", userId |-> ""]

\* The structured config, or the message of the error thrown.
getActiveConfig(configDoc) ==
    IF ~configDoc.found \/ ~configDoc.hasVars
    THEN [error |-> "No configuration found for project", spotify |-> NoConfig]
    ELSE LET vars == configDoc.vars
             missing == SelectSeq(REQUIRED_FIELDS, LAMBDA f : vars[f] = "")
         IN  IF Len(missing) > 0
             THEN [error |-> "Missing required config fields", spotify |-> NoConfig]
             ELSE [error |-> "",
                   spotify |-> [clientId |-> vars.SPOTIFY_CLIENT_ID,
                                clientSecret |-> vars.SPOTIFY_CLIENT_SECRET,
                                refreshToken |-> vars.SPOTIFY_REFRESH_TOKEN,
                                userId |-> vars.SPOTIFY_USER_ID]]

(******************************* spotify ***********************************)
\* validateConfig: "" when complete, else the message of the error thrown.
validateConfig(config) ==
    LET required == <<"clientId", "clientSecret", "refreshToken", "userId">>
        bad == SelectSeq(required, LAMBDA k : config[k] = "")
    IN  IF Len(bad) > 0 THEN "SPOTIFY environment variable is required" ELSE ""

\* Mutation: the stored vars are used without checking that they are set.
loadConfig_unchecked(configDoc) ==
    [error |-> "",
     spotify |-> [clientId |-> configDoc.vars.SPOTIFY_CLIENT_ID,
                  clientSecret |-> configDoc.vars.SPOTIFY_CLIENT_SECRET,
                  refreshToken |-> configDoc.vars.SPOTIFY_REFRESH_TOKEN,
                  userId |-> configDoc.vars.SPOTIFY_USER_ID]]

\* loadConfig of the handler: getActiveConfig, then validateSpotifyConfig.
loadConfig(configDoc) ==
    LET c == getActiveConfig(configDoc)
    IN  IF c.error # "" THEN c
        ELSE [error |-> validateConfig(c.spotify), spotify |-> c.spotify]

DefaultOptions == [method |-> "GET", body |-> <<>>]

\* The request fetch() sends for spotifyRequest(url, token, options).
BuildRequest(url, token, options) ==
    [url |-> url, token |-> token, method |-> options.method, body |-> options.body]

Endpoint(name, arg) == [endpoint |-> name, arg |-> arg]
NoUrl == Endpoint("none", <<>>)
NoReq == BuildRequest(NoUrl, Null, DefaultOptions)

\* parseInt(response.headers.get('Retry-After') || '5', 10)
RetryAfterSeconds(header) ==
    ParseInt(IF header = NoStr \/ header = <<>> THEN ToDigits(DEFAULT_RETRY_AFTER) ELSE header)

\* Error message thrown by spotifyRequest for a response that is not ok.
ApiError(status) ==
    CASE status = 404 -> "Spotify API error: 404"
      [] status = 429 -> "Spotify API error: 429"
      [] OTHER        -> "Spotify API error: 500"

\* searchTrack's query construction; NoStr is a hint that is not given.
SearchQuery(query, artist, track) ==
    IF artist # NoStr /\ artist # <<>> /\ track # NoStr /\ track # <<>>
    THEN <<"track:">> \o track \o <<" artist:">> \o artist
    ELSE IF track # NoStr /\ track # <<>> THEN <<"track:">> \o track
    ELSE IF artist # NoStr /\ artist # <<>> THEN <<"artist:">> \o artist \o <<" ">> \o query
    ELSE query

\* The track object searchTrack and getTrackById build from a response item.
TrackOf(item) == [id |-> item.id, uri |-> item.uri, releaseDate |-> item.release_date]

\* searchTrack after the response: the first item released in the target
\* month, as a list of none or one track.
RECURSIVE FirstReleased(_, _)
FirstReleased(items, targetYearMonth) ==
    IF Len(items) = 0 THEN <<>>
    ELSE IF isReleasedInMonth(Head(items).release_date, targetYearMonth)
         THEN <<TrackOf(Head(items))>>
         ELSE FirstReleased(Tail(items), targetYearMonth)

\* Mutation: the direct-id path skips the release filter.
TrackIfReleased_unfiltered(data, targetYearMonth) == <<TrackOf(data)>>

\* getTrackById after the response.
TrackIfReleased(data, targetYearMonth) ==
    IF ~isReleasedInMonth(data.release_date, targetYearMonth) THEN <<>>
    ELSE <<TrackOf(data)>>

(************************** the run's environment **************************)
SeqsUpTo(S, n) == UNION {[1..k -> S] : k \in 0..n}
NoDupSeqsUpTo(S, n) ==
    {q \in SeqsUpTo(S, n) : \A i, j \in 1..Len(q) : i # j => q[i] # q[j]}

\* Date.now() at the start of the run: January and February 2026.
Nows == {[year |-> 2026, month |-> 0], [year |-> 2026, month |-> 1]}

D_2026_01_15 == <<"2", "0", "2", "6", "-", "0", "1", "-", "1", "5">>
D_2026_01    == <<"2", "0", "2", "6", "-", "0", "1">>
D_2026       == <<"2", "0", "2", "6">>
D_2025_12_24 == <<"2", "0", "2", "5", "-", "1", "2", "-", "2", "4">>

\* The tracks the streaming service may return (album.release_date flattened
\* into release_date; NoStr when the album carries none).
Catalog ==
    {[id |-> "t1", uri |-> "spotify:track:t1", release_date |-> D_2026_01_15],
     [id |-> "t2", uri |-> "spotify:track:t2", release_date |-> D_2026_01],
     [id |-> "t3", uri |-> "spotify:track:t3", release_date |-> D_2026],
     [id |-> "t4", uri |-> "spotify:track:t4", release_date |-> D_2025_12_24],
     [id |-> "t5", uri |-> "spotify:track:t5", release_date |-> NoStr]}
\* URIs a page of playlist items may list.
ListedUris == {"spotify:track:t1", "spotify:track:t4"}

\* Links a month's document may hold.  The last one parses as a URL as
\* stored and no longer does once its trailing punctuation is stripped.
LinkUniverse ==
    {<<"https://", "open.spotify.com", "/track/", "ABC123">>,
     <<"https://", "youtu.be", "/", "dQw4", ".">>,
     <<"https://", "example.com", "/", "daft-punk">>,
     <<"https://", ".">>}
LinkLists == NoDupSeqsUpTo(LinkUniverse, MaxLinks)

\* Retry-After as the service sends it, a delay in whole seconds, or no header.
RetryAfterHeaders == {NoStr, <<"1">>, <<"3", "0">>}
ErrorStatuses == {404, 500}
FetchFailed == "fetch failed"

\* Token cache contents at the start of a run and clock readings (ms).
TokenCaches ==
    {[token |-> Null, expiresAt |-> 0],
     [token |-> "tokA", expiresAt |-> 90000]}
TimeSamples == {20000, 30000}
EXPIRES_IN == 3600

NoPlaylist == [id |-> Null, url |-> Null]
NoMonth == [year |-> 0, month |-> 0, monthName |-> Null, yearMonth |-> NoStr]
ZeroStats ==
    [linksSubmitted |-> 0, musicCandidates |-> 0, tracksMatched |-> 0,
     tracksAdded |-> 0, tracksSkipped |-> 0, errors |-> <<>>]

VARIABLES
    configDoc, tokenCache,                       \* stored config, module tokenCache
    pc,                                          \* position of the handler
    rq, call, req, prevReq, retried, retryAfter, \* spotifyRequest frame
    backoffMs, lastStatus, inflight, issued,
    config, monthInfo, spotifyToken, links,      \* handler locals
    linksMonth,                                  \* month key getSubmittedLinks asked for
    allCandidates, idx, matchedTracks, track,
    lookupError, sleptSince,
    playlist, existingUris, newUris, skipped,    \* addTracksToPlaylist locals
    batchStart, added, nextUrl,
    stats, response, stages,                     \* report
    fnIn, fnOut,                                 \* pure-function application
    plItems, ap, appendLog, apOut,               \* addTracksToPlaylist called on its own
    submittedLinks, sub,                         \* submitted_links collection, submit-links requests
    validTokens, authNow,                        \* login module's token store, Date.now()
    storedVars, votes,                           \* stored vars of project "default", votes hash
    api                                          \* requests to the auth, save-config and vote endpoints

envVars == <<configDoc, tokenCache>>
httpVars == <<rq, call, req, prevReq, retried, retryAfter, backoffMs, lastStatus,
              inflight, issued>>
runVars == <<config, monthInfo, spotifyToken, links, linksMonth, allCandidates, idx,
             matchedTracks, track, lookupError, sleptSince>>
pubVars == <<playlist, existingUris, newUris, skipped, batchStart, added, nextUrl>>
outVars == <<stats, response, stages>>
appendVars == <<plItems, ap, appendLog, apOut>>
submitVars == <<submittedLinks, sub>>
apiVars == <<validTokens, authNow, storedVars, votes, api>>
fnVars == <<fnIn, fnOut, appendVars, submitVars, apiVars>>
vars == <<envVars, pc, httpVars, runVars, pubVars, outVars, fnVars>>

NoCall == [url |-> NoUrl, token |-> Null, options |-> DefaultOptions]
NoFn == [f |-> "none", d |-> <<>>, t |-> <<>>]
NoResult == <<>>

\* The frame of addTracksToPlaylist when it is not running.
NoAppendCall ==
    [pc |-> "idle", trackUris |-> <<>>, offset |-> 0, existingUris |-> {},
     newUris |-> <<>>, skipped |-> 0, i |-> 0, added |-> 0]
AppendIdle == plItems = <<>> /\ ap = NoAppendCall /\ appendLog = <<>> /\ apOut = <<>>
\* No submit-links request is being served.
SubmitIdle == submittedLinks = <<>> /\ sub = <<>>
\* No request to the auth, save-config or vote endpoints is being served.
ApiIdle ==
    validTokens = {} /\ authNow = 0 /\ storedVars = <<>> /\ votes = <<>> /\ api = <<>>

InitRun ==
    /\ pc = "LoadConfig"
    /\ rq = "idle" /\ call = NoCall /\ req = NoReq /\ prevReq = NoReq
    /\ retried = FALSE /\ retryAfter = NoStr /\ backoffMs = 0
    /\ lastStatus = 0 /\ inflight = 0 /\ issued = {}
    /\ config = NoConfig /\ monthInfo = NoMonth /\ spotifyToken = Null
    /\ links = <<>> /\ linksMonth = NoStr /\ allCandidates = <<>> /\ idx = 0
    /\ matchedTracks = <<>> /\ track = <<>>
    /\ lookupError = "" /\ sleptSince = 0
    /\ playlist = NoPlaylist /\ existingUris = {} /\ newUris = <<>>
    /\ skipped = 0 /\ batchStart = 0 /\ added = 0 /\ nextUrl = Null
    /\ stats = ZeroStats /\ response = <<>> /\ stages = <<>>

Init ==
    /\ configDoc \in ConfigDocs
    /\ tokenCache \in TokenCaches
    /\ InitRun
    /\ fnIn = NoFn /\ fnOut = NoResult
    /\ AppendIdle /\ SubmitIdle /\ ApiIdle

(***************************** the report **********************************)
\* Mutation: the catch block reports a fresh stats object.
FailureReport_statsLost(message, st) ==
    [status |-> 500, success |-> FALSE, text |-> message,
     playlist |-> <<>>, stats |-> ZeroStats]

\* res.status(500).json({success: false, error, stats, duration})
FailureReport(message, st) ==
    [status |-> 500, success |-> FALSE, text |-> message,
     playlist |-> <<>>, stats |-> st]

\* res.status(200).json({success: true, message, stats, duration})
EmptyReport(message, st) ==
    [status |-> 200, success |-> TRUE, text |-> message,
     playlist |-> <<>>, stats |-> st]

\* res.status(200).json({success: true, message, playlist, stats, duration})
SuccessReport(pl, st) ==
    [status |-> 200, success |-> TRUE, text |-> "Created playlist",
     playlist |-> <<pl>>, stats |-> st]

\* The top-level catch of the handler: one response, then the handler returns.
\* `entered` lists the stages the step enters before it throws.
Throw(entered, message) ==
    /\ response' = Append(response, FailureReport(message, stats))
    /\ stages' = stages \o entered \o <<"ReportFailure">>
    /\ pc' = "Done"

\* An early exit ("ReportEmpty") or the final return ("ReportSuccess").
Return(entered, report, stage) ==
    /\ response' = Append(response, report)
    /\ stages' = stages \o entered \o <<stage>>
    /\ pc' = "Done"

Enter(stage) == stages' = Append(stages, stage)

(*************************** spotifyRequest ********************************)
\* spotifyRequest(url, token, options) up to its fetch.
Issue(url, token, options) ==
    /\ rq' = "await"
    /\ call' = [url |-> url, token |-> token, options |-> options]
    /\ req' = BuildRequest(url, token, options)
    /\ prevReq' = NoReq
    /\ retried' = FALSE /\ retryAfter' = NoStr /\ backoffMs' = 0
    /\ inflight' = inflight + 1
    /\ issued' = issued \cup {url.endpoint}
    /\ lastStatus' = 0

\* One spotifyRequest returned with data and the caller goes straight on to
\* its next spotifyRequest.
SettleAndIssue(url, token, options) ==
    /\ rq' = "await"
    /\ call' = [url |-> url, token |-> token, options |-> options]
    /\ req' = BuildRequest(url, token, options)
    /\ prevReq' = NoReq
    /\ retried' = FALSE /\ retryAfter' = NoStr /\ backoffMs' = 0
    /\ inflight' = (inflight - 1) + 1
    /\ issued' = issued \cup {url.endpoint}
    /\ lastStatus' = 0

\* The response arrived and spotifyRequest returns or throws.
Settle(status) ==
    /\ rq' = "idle"
    /\ lastStatus' = status
    /\ inflight' = inflight - 1
    /\ retryAfter' = NoStr /\ backoffMs' = 0
    /\ UNCHANGED <<call, req, prevReq, retried, issued>>

\* Mutation: every response that is not ok is retried.
Retryable_anyError(status) == status # 200 /\ status # 0

\* if (response.status === 429)
Retryable(status) == status = 429

\* A spotifyRequest is waiting for its response.
Awaiting(stage) == pc = stage /\ rq = "await"

\* Status 429: read Retry-After and sleep.
RateLimited ==
    /\ rq = "await" /\ pc # "Authenticate"
    /\ \E status \in {429} \cup ErrorStatuses, header \in RetryAfterHeaders :
          /\ Retryable(status)
          /\ lastStatus' = status
          /\ retryAfter' = header
          /\ backoffMs' = RetryAfterSeconds(header) * 1000
    /\ rq' = "backoff"
    /\ inflight' = inflight - 1
    /\ UNCHANGED <<call, req, prevReq, retried, issued>>
    /\ UNCHANGED <<envVars, pc, runVars, pubVars, outVars, fnVars>>

\* Mutation: the retry forgets the options (method and body).
RetryOf_dropOptions(c) == BuildRequest(c.url, c.token, DefaultOptions)

\* return spotifyRequest(url, token, options)
RetryOf(c) == BuildRequest(c.url, c.token, c.options)

\* The sleep is over: the recursive call fetches again.
RetryRequest ==
    /\ rq = "backoff"
    /\ rq' = "await"
    /\ prevReq' = req
    /\ req' = RetryOf(call)
    /\ retried' = TRUE
    /\ retryAfter' = NoStr /\ backoffMs' = 0
    /\ inflight' = inflight + 1
    /\ UNCHANGED <<call, lastStatus, issued>>
    /\ UNCHANGED <<envVars, pc, runVars, pubVars, outVars, fnVars>>

(****************************** the handler ********************************)
\* Step 1.  connectToDatabase may throw; loadConfig may throw.
LoadConfig ==
    /\ pc = "LoadConfig"
    /\ \E dbUp \in BOOLEAN :
          LET c == loadConfig(configDoc) IN
          IF ~dbUp THEN
              /\ Throw(<<"LoadConfig">>, "MONGODB_URI environment variable is not set")
              /\ UNCHANGED config
          ELSE IF c.error # "" THEN
              /\ Throw(<<"LoadConfig">>, c.error)
              /\ UNCHANGED config
          ELSE
              /\ config' = c.spotify
              /\ pc' = "ComputeTargetMonth"
              /\ Enter("LoadConfig")
              /\ UNCHANGED response
    /\ UNCHANGED <<monthInfo, spotifyToken, links, linksMonth, allCandidates, idx,
                   matchedTracks, track, lookupError, sleptSince>>
    /\ UNCHANGED <<envVars, httpVars, pubVars, stats, fnVars>>

\* Step 2.
ComputeTargetMonth ==
    /\ pc = "ComputeTargetMonth"
    /\ \E now \in Nows : monthInfo' = getPreviousMonthBounds(now)
    /\ pc' = "Authenticate"
    /\ Enter("ComputeTargetMonth")
    /\ UNCHANGED <<config, spotifyToken, links, linksMonth, allCandidates, idx,
                   matchedTracks, track, lookupError, sleptSince>>
    /\ UNCHANGED <<envVars, httpVars, pubVars, stats, response, fnVars>>

\* Mutation: the safety buffer is not subtracted.
CacheValid_noBuffer(cache, now) == cache.token # Null /\ now < cache.expiresAt

\* getAccessToken: the cached token is still valid for the safety buffer.
CacheValid(cache, now) == cache.token # Null /\ now < cache.expiresAt - TOKEN_BUFFER_MS

TokenRequest(cfg) ==
    BuildRequest(Endpoint("token", <<cfg.refreshToken>>), cfg.clientSecret,
                 [method |-> "POST", body |-> <<"grant_type=refresh_token">>])

\* getAccessToken up to its fetch, Date.now() reading now.
AuthenticateAt(now) ==
    /\ pc = "Authenticate" /\ rq = "idle"
    /\ Enter("Authenticate")
    /\ IF CacheValid(tokenCache, now) THEN
           /\ spotifyToken' = tokenCache.token
           /\ pc' = "GatherRawLinks"
           /\ UNCHANGED httpVars
       ELSE
           /\ rq' = "await"
           /\ req' = TokenRequest(config)
           /\ inflight' = inflight + 1
           /\ issued' = issued \cup {"token"}
           /\ lastStatus' = 0
           /\ UNCHANGED <<spotifyToken, pc, call, prevReq, retried, retryAfter,
                          backoffMs>>
    /\ UNCHANGED <<config, monthInfo, links, linksMonth, allCandidates, idx,
                   matchedTracks, track, lookupError, sleptSince>>
    /\ UNCHANGED <<envVars, pubVars, stats, response, fnVars>>

\* Step 3, up to the fetch of getAccessToken.
Authenticate == \E now \in TimeSamples : AuthenticateAt(now)

\* getAccessToken after its fetch, Date.now() reading now: the token endpoint
\* answered or the fetch failed.
TokenResponseAt(now) ==
    /\ pc = "Authenticate" /\ rq = "await"
    /\ rq' = "idle"
    /\ inflight' = inflight - 1
    /\ \E outcome \in {"ok", "not ok", "network"} :
          CASE outcome = "ok" ->
                 /\ tokenCache' = [token |-> "tokB", expiresAt |-> now + EXPIRES_IN * 1000]
                 /\ spotifyToken' = "tokB"
                 /\ lastStatus' = 200
                 /\ pc' = "GatherRawLinks"
                 /\ UNCHANGED <<response, stages>>
            [] outcome = "not ok" ->
                 /\ lastStatus' = 400
                 /\ Throw(<<>>, "Spotify token refresh failed. Check SPOTIFY_REFRESH_TOKEN.")
                 /\ UNCHANGED <<tokenCache, spotifyToken>>
            [] OTHER ->
                 /\ lastStatus' = 0
                 /\ Throw(<<>>, FetchFailed)
                 /\ UNCHANGED <<tokenCache, spotifyToken>>
    /\ UNCHANGED <<call, req, prevReq, retried, retryAfter, backoffMs, issued>>
    /\ UNCHANGED <<config, monthInfo, links, linksMonth, allCandidates, idx,
                   matchedTracks, track, lookupError, sleptSince>>
    /\ UNCHANGED <<configDoc, pubVars, stats, fnVars>>

\* Step 3, after the fetch.
TokenResponse == \E now \in TimeSamples : TokenResponseAt(now)

\* Step 4.  getSubmittedLinks may throw; no links is an early exit.
GatherRawLinks ==
    /\ pc = "GatherRawLinks"
    /\ \E dbUp \in BOOLEAN, stored \in LinkLists :
          IF ~dbUp THEN
              /\ Throw(<<"GatherRawLinks">>, "MONGODB_URI environment variable is not set")
              /\ UNCHANGED <<links, linksMonth, stats>>
          ELSE
              /\ links' = stored
              /\ linksMonth' = monthInfo.yearMonth
              /\ stats' = [stats EXCEPT !.linksSubmitted = Len(stored)]
              /\ IF Len(stored) = 0
                 THEN Return(<<"GatherRawLinks">>, EmptyReport("No links submitted", stats'),
                             "ReportEmpty")
                 ELSE /\ pc' = "ExtractCandidates"
                      /\ Enter("GatherRawLinks")
                      /\ UNCHANGED response
    /\ UNCHANGED <<config, monthInfo, spotifyToken, allCandidates, idx,
                   matchedTracks, track, lookupError, sleptSince>>
    /\ UNCHANGED <<envVars, httpVars, pubVars, fnVars>>

\* Mutation: every link's candidates are pushed twice.
RECURSIVE CandidatesOf_twice(_)
CandidatesOf_twice(ls) ==
    IF Len(ls) = 0 THEN <<>>
    ELSE extractMusicUrls(Head(ls)) \o extractMusicUrls(Head(ls)) \o CandidatesOf_twice(Tail(ls))

\* allCandidates.push(...extractMusicUrls(url)) for every link, in order.
RECURSIVE CandidatesOf(_)
CandidatesOf(ls) ==
    IF Len(ls) = 0 THEN <<>> ELSE extractMusicUrls(Head(ls)) \o CandidatesOf(Tail(ls))

\* Step 5.  No candidates is an early exit.
ExtractCandidates ==
    /\ pc = "ExtractCandidates"
    /\ allCandidates' = CandidatesOf(links)
    /\ stats' = [stats EXCEPT !.musicCandidates = Len(allCandidates')]
    /\ IF Len(allCandidates') = 0
       THEN /\ Return(<<"ExtractCandidates">>,
                      EmptyReport("No recognizable music URLs found", stats'),
                      "ReportEmpty")
            /\ UNCHANGED idx
       ELSE /\ pc' = "Resolve"
            /\ idx' = 1
            /\ Enter("ExtractCandidates")
            /\ UNCHANGED response
    /\ UNCHANGED <<config, monthInfo, spotifyToken, links, linksMonth,
                   matchedTracks, track, lookupError, sleptSince>>
    /\ UNCHANGED <<envVars, httpVars, pubVars, fnVars>>

(**************************** step 6: resolve ******************************)
\* Mutation: the search query is looked at before the direct track id.
processCandidate_searchFirst(candidate) ==
    IF candidate.searchQuery # NoStr /\ candidate.searchQuery # <<>> THEN "search"
    ELSE IF candidate.spotifyTrackId # Null /\ candidate.spotifyTrackId # "" THEN "tracks"
    ELSE "none"

\* processCandidate: which lookup the candidate gets.
processCandidate(candidate) ==
    IF candidate.spotifyTrackId # Null /\ candidate.spotifyTrackId # "" THEN "tracks"
    ELSE IF candidate.searchQuery # NoStr /\ candidate.searchQuery # <<>> THEN "search"
    ELSE "none"

LookupUrl(candidate, kind) ==
    IF kind = "tracks" THEN Endpoint("tracks", <<candidate.spotifyTrackId>>)
    ELSE Endpoint("search",
                  SearchQuery(candidate.searchQuery, candidate.artist, candidate.track))

\* Mutation: every returned track is stored, matched before or not.
Remember_always(matched, found) ==
    IF Len(found) > 0 THEN Append(matched, found[1]) ELSE matched

\* if (track && !matchedTracks.has(track.id)) matchedTracks.set(track.id, track)
Remember(matched, found) ==
    IF Len(found) > 0 /\ \A i \in 1..Len(matched) : matched[i].id # found[1].id
    THEN Append(matched, found[1])
    ELSE matched

\* Mutation: the delay is skipped for a candidate that matched nothing.
DelayAfter_onlyOnMatch(found) == IF Len(found) > 0 THEN POST_PROCESS_DELAY_MS ELSE 0

\* await sleep(POST_PROCESS_DELAY_MS) after every processCandidate that returned.
DelayAfter(found) == POST_PROCESS_DELAY_MS

\* The loop picks the next candidate and calls processCandidate, which
\* fetches or, with neither id nor query, returns null at once.
ProcessCandidate ==
    /\ pc = "Resolve" /\ rq = "idle" /\ idx <= Len(allCandidates)
    /\ LET candidate == allCandidates[idx]
           kind == processCandidate(candidate) IN
       IF kind = "none" THEN
           /\ track' = <<>>
           /\ pc' = "ResolveSleep"
           /\ sleptSince' = 0
           /\ UNCHANGED httpVars
       ELSE
           /\ Issue(LookupUrl(candidate, kind), spotifyToken, DefaultOptions)
           /\ track' = <<>>
           /\ UNCHANGED <<pc, sleptSince>>
    /\ lookupError' = ""
    /\ stages' = IF idx = 1 THEN Append(stages, "ResolveCandidates") ELSE stages
    /\ UNCHANGED <<config, monthInfo, spotifyToken, links, linksMonth, allCandidates, idx,
                   matchedTracks>>
    /\ UNCHANGED <<envVars, pubVars, stats, response, fnVars>>

\* catch (error) of searchTrack / getTrackById: the error is logged to the
\* console and null is returned; nothing is thrown to processCandidate's caller.
LookupCatch(message) == [result |-> <<>>, thrown |-> ""]

\* The lookup settled with a response that is not ok or with a failed fetch.
\* Had the lookup thrown, the catch of the loop would push the message to
\* stats.errors and go on with the next candidate without sleeping.
LookupFailed ==
    /\ Awaiting("Resolve")
    /\ \E status \in {s \in {429} \cup ErrorStatuses \cup {0} : ~Retryable(s)} :
          LET message == IF status = 0 THEN FetchFailed ELSE ApiError(status)
              outcome == LookupCatch(message) IN
          /\ Settle(status)
          /\ lookupError' = message
          /\ IF outcome.thrown # ""
             THEN /\ stats' = [stats EXCEPT !.errors = Append(@, outcome.thrown)]
                  /\ idx' = idx + 1
                  /\ pc' = "Resolve"
                  /\ UNCHANGED track
             ELSE /\ track' = outcome.result
                  /\ pc' = "ResolveSleep"
                  /\ UNCHANGED <<stats, idx>>
    /\ sleptSince' = 0
    /\ UNCHANGED <<config, monthInfo, spotifyToken, links, linksMonth, allCandidates,
                   matchedTracks>>
    /\ UNCHANGED <<envVars, pubVars, response, stages, fnVars>>

\* The lookup settled with data: filter by release month, remember the match.
LookupAnswered ==
    /\ Awaiting("Resolve")
    /\ Settle(200)
    /\ IF req.url.endpoint = "tracks"
       THEN \E data \in Catalog :
               track' = TrackIfReleased(data, monthInfo.yearMonth)
       ELSE \E items \in SeqsUpTo(Catalog, MaxItems) :
               track' = FirstReleased(items, monthInfo.yearMonth)
    /\ matchedTracks' = Remember(matchedTracks, track')
    /\ pc' = "ResolveSleep"
    /\ sleptSince' = 0
    /\ UNCHANGED <<config, monthInfo, spotifyToken, links, linksMonth, allCandidates, idx,
                   lookupError>>
    /\ UNCHANGED <<envVars, pubVars, outVars, fnVars>>

\* The inter-candidate delay, then the next iteration.
InterCandidateSleep ==
    /\ pc = "ResolveSleep"
    /\ sleptSince' = DelayAfter(track)
    /\ idx' = idx + 1
    /\ pc' = "Resolve"
    /\ UNCHANGED <<config, monthInfo, spotifyToken, links, linksMonth, allCandidates,
                   matchedTracks, track, lookupError>>
    /\ UNCHANGED <<envVars, httpVars, pubVars, outVars, fnVars>>

\* Mutation: a run without matches goes on to create the playlist.
NoMatches_never(matched) == FALSE

\* if (matchedTracks.size === 0)
NoMatches(matched) == Len(matched) = 0

\* After the loop: tracksMatched, the no-match early exit.
FinishResolve ==
    /\ pc = "Resolve" /\ rq = "idle" /\ idx > Len(allCandidates)
    /\ stats' = [stats EXCEPT !.tracksMatched = Len(matchedTracks)]
    /\ IF NoMatches(matchedTracks)
       THEN Return(<<>>, EmptyReport("No tracks from the month found", stats'), "ReportEmpty")
       ELSE /\ pc' = "CreateCollection"
            /\ UNCHANGED <<response, stages>>
    /\ UNCHANGED <<envVars, httpVars, runVars, pubVars, fnVars>>

(*********************** steps 7 and 8: publish ****************************)
PlaylistName(m) == <<"Digital Diggaz", m.monthName>> \o ToDigits(m.year)

\* Step 7, createPlaylist up to its fetch.
CreatePlaylist ==
    /\ pc = "CreateCollection" /\ rq = "idle"
    /\ Issue(Endpoint("create", <<config.userId>>), spotifyToken,
             [method |-> "POST", body |-> PlaylistName(monthInfo)])
    /\ Enter("CreateCollection")
    /\ UNCHANGED <<envVars, pc, runVars, pubVars, stats, response, fnVars>>

\* A publish request settled with an error: spotifyRequest throws, nothing
\* catches before the top-level catch.
PublishFailed ==
    /\ rq = "await" /\ pc \in {"CreateCollection", "ListItems", "AppendBatch"}
    /\ \E status \in {s \in {429} \cup ErrorStatuses \cup {0} : ~Retryable(s)} :
          /\ Settle(status)
          /\ Throw(<<>>, IF status = 0 THEN FetchFailed ELSE ApiError(status))
    /\ UNCHANGED <<envVars, runVars, pubVars, stats, fnVars>>

\* Step 7 after the response.
CreateAnswered ==
    /\ Awaiting("CreateCollection")
    /\ Settle(200)
    /\ playlist' = [id |-> "pl1", url |-> "https://open.spotify.com/playlist/pl1"]
    /\ pc' = "AppendTracks"
    /\ UNCHANGED <<existingUris, newUris, skipped, batchStart, added, nextUrl>>
    /\ UNCHANGED <<envVars, runVars, outVars, fnVars>>

\* Array.from(matchedTracks.values()).map(t => t.uri)
TrackUris(matched) == [i \in 1..Len(matched) |-> matched[i].uri]

AppendOptions(uris) == [method |-> "POST", body |-> uris]

\* Mutation: the slice takes one URI too many.
Batch_oneTooMany(uris, i) == SubSeq(uris, i + 1, Min(Len(uris), i + TRACKS_PER_BATCH + 1))

\* newUris.slice(i, i + TRACKS_PER_BATCH), i counted from 0
Batch(uris, i) == SubSeq(uris, i + 1, Min(Len(uris), i + TRACKS_PER_BATCH))

\* Step 8, addTracksToPlaylist up to the first fetch of getPlaylistTrackUris.
AddTracksToPlaylist ==
    /\ pc = "AppendTracks" /\ rq = "idle"
    /\ IF Len(TrackUris(matchedTracks)) = 0
       THEN /\ stats' = [stats EXCEPT !.tracksAdded = 0, !.tracksSkipped = 0]
            /\ Return(<<"AppendTracks">>, SuccessReport(playlist, stats'), "ReportSuccess")
            /\ UNCHANGED httpVars
       ELSE /\ Issue(Endpoint("list", <<playlist.id>>), spotifyToken, DefaultOptions)
            /\ pc' = "ListItems"
            /\ Enter("AppendTracks")
            /\ UNCHANGED <<stats, response>>
    /\ existingUris' = {}
    /\ UNCHANGED <<playlist, newUris, skipped, batchStart, added, nextUrl>>
    /\ UNCHANGED <<envVars, runVars, fnVars>>

\* Mutation: nothing is filtered out.
NewUris_unfiltered(uris, existing) == uris

\* trackUris.filter(uri => !existingUris.has(uri))
NewUris(uris, existing) == SelectSeq(uris, LAMBDA u : u \notin existing)

\* One page of getPlaylistTrackUris arrived.  With a next cursor the loop
\* sleeps and fetches on; without, addTracksToPlaylist filters and either
\* returns (nothing new) or posts the first batch.
ListAnswered ==
    /\ Awaiting("ListItems")
    /\ \E items \in SUBSET ListedUris,
          next \in {Null, "cursor"} :
          LET existing == existingUris \cup items
              fresh == NewUris(TrackUris(matchedTracks), existing)
              dupes == Len(matchedTracks) - Len(fresh) IN
          /\ existingUris' = existing
          /\ nextUrl' = next
          /\ IF next # Null THEN
                 /\ Settle(200)
                 /\ pc' = "ListSleep"
                 /\ UNCHANGED <<newUris, skipped, batchStart, added, outVars>>
             ELSE IF Len(fresh) = 0 THEN
                 /\ Settle(200)
                 /\ newUris' = fresh /\ skipped' = dupes
                 /\ stats' = [stats EXCEPT !.tracksAdded = 0, !.tracksSkipped = dupes]
                 /\ Return(<<>>, SuccessReport(playlist, stats'), "ReportSuccess")
                 /\ UNCHANGED <<batchStart, added>>
             ELSE
                 /\ newUris' = fresh /\ skipped' = dupes
                 /\ batchStart' = 0 /\ added' = 0
                 /\ SettleAndIssue(Endpoint("append", <<playlist.id>>), spotifyToken,
                                   AppendOptions(Batch(fresh, 0)))
                 /\ pc' = "AppendBatch"
                 /\ UNCHANGED outVars
    /\ UNCHANGED playlist
    /\ UNCHANGED <<envVars, runVars, fnVars>>

\* sleep(REQUEST_DELAY_MS) is over: getPlaylistTrackUris fetches url = data.next.
ListNextPage ==
    /\ pc = "ListSleep"
    /\ Issue(Endpoint("list", <<nextUrl>>), spotifyToken, DefaultOptions)
    /\ pc' = "ListItems"
    /\ UNCHANGED <<envVars, runVars, pubVars, outVars, fnVars>>

\* A batch was appended: the next batch after sleep(REQUEST_DELAY_MS), or
\* the return of addTracksToPlaylist and the success report.
BatchAnswered ==
    /\ Awaiting("AppendBatch")
    /\ LET done == added + Len(Batch(newUris, batchStart))
           nextStart == batchStart + TRACKS_PER_BATCH IN
       /\ added' = done
       /\ IF nextStart < Len(newUris) THEN
              /\ batchStart' = nextStart
              /\ SettleAndIssue(Endpoint("append", <<playlist.id>>), spotifyToken,
                                AppendOptions(Batch(newUris, nextStart)))
              /\ UNCHANGED <<pc, outVars>>
          ELSE
              /\ Settle(200)
              /\ stats' = [stats EXCEPT !.tracksAdded = done, !.tracksSkipped = skipped]
              /\ Return(<<>>, SuccessReport(playlist, stats'), "ReportSuccess")
              /\ UNCHANGED batchStart
    /\ UNCHANGED <<playlist, existingUris, newUris, skipped, nextUrl>>
    /\ UNCHANGED <<envVars, runVars, fnVars>>

(***************************** specification *******************************)
Next ==
    \/ LoadConfig
    \/ ComputeTargetMonth
    \/ Authenticate
    \/ TokenResponse
    \/ GatherRawLinks
    \/ ExtractCandidates
    \/ ProcessCandidate
    \/ LookupFailed
    \/ LookupAnswered
    \/ InterCandidateSleep
    \/ FinishResolve
    \/ CreatePlaylist
    \/ CreateAnswered
    \/ AddTracksToPlaylist
    \/ ListAnswered
    \/ ListNextPage
    \/ BatchAnswered
    \/ PublishFailed
    \/ RateLimited
    \/ RetryRequest

Spec == Init /\ [][Next]_vars

\* Every awaited step of the handler resumes and every fetch settles; which
\* response the service gives is not constrained.
LiveSpec == Spec /\ WF_vars(Next)

(******************** date-utils applied to drawn inputs *******************)
D_2026_02_01 == <<"2", "0", "2", "6", "-", "0", "2", "-", "0", "1">>
D_2026_12_31 == <<"2", "0", "2", "6", "-", "1", "2", "-", "3", "1">>

\* Release-date strings: every prefix, up to MaxDateLen, of a few dates.
ReleaseDates ==
    {SubSeq(d, 1, k) : d \in {D_2026_01_15, D_2025_12_24, D_2026_02_01, D_2026_12_31},
                       k \in 0..Min(MaxDateLen, 10)}

\* Targets "YYYY-MM", as getPreviousMonthBounds builds them.
TargetMonths ==
    {getPreviousMonthBounds(now).yearMonth :
        now \in {[year |-> y, month |-> m] : y \in {2026, 2027}, m \in {0, 1, 2}}}

InitDate ==
    /\ configDoc = NoDoc
    /\ tokenCache = [token |-> Null, expiresAt |-> 0]
    /\ InitRun
    /\ fnIn \in {[f |-> "isReleasedInMonth", d |-> d, t |-> t] :
                    d \in ReleaseDates, t \in TargetMonths}
    /\ fnOut = NoResult
    /\ AppendIdle /\ SubmitIdle /\ ApiIdle

ApplyIsReleasedInMonth ==
    /\ fnIn.f = "isReleasedInMonth" /\ fnOut = NoResult
    /\ fnOut' = <<isReleasedInMonth(fnIn.d, fnIn.t)>>
    /\ UNCHANGED <<envVars, pc, httpVars, runVars, pubVars, outVars, fnIn, appendVars,
                 submitVars, apiVars>>

NextDate == ApplyIsReleasedInMonth

SpecDate == InitDate /\ [][NextDate]_vars

(**************** addTracksToPlaylist called on a playlist *****************)
\* Largest number of URIs handed to addTracksToPlaylist.
MaxUris == 250
\* Most calls made on the one playlist.
MaxCalls == 2
\* limit=100 in the URL of getPlaylistTrackUris: the service's page size.
LIST_LIMIT == 100

\* URIs are numbered; the callers pass the URIs of a Map keyed by track id,
\* so no URI twice.
UriLists == {[k \in 1..n |-> k] : n \in 0..MaxUris}
\* What the playlist holds before the first call: nothing, or URIs of which
\* some are about to be passed.
InitialPlaylists == {<<>>, <<2, 300>>}

InitAppend ==
    /\ configDoc = NoDoc
    /\ tokenCache = [token |-> Null, expiresAt |-> 0]
    /\ InitRun
    /\ fnIn \in {[f |-> "addTracksToPlaylist", trackUris |-> u, before |-> b] :
                    u \in UriLists, b \in InitialPlaylists}
    /\ fnOut = NoResult
    /\ plItems = fnIn.before
    /\ ap = NoAppendCall /\ appendLog = <<>> /\ apOut = <<>>
    /\ SubmitIdle /\ ApiIdle

\* return { added, skipped }, or an error thrown by spotifyRequest.
AppendResult(a, sk) == [thrown |-> FALSE, added |-> a, skipped |-> sk]
AppendThrown == [thrown |-> TRUE, added |-> 0, skipped |-> 0]

\* addTracksToPlaylist is called: nothing to add returns at once, otherwise
\* getPlaylistTrackUris starts with the first page.
AppendCall ==
    /\ ap.pc \in {"idle", "done"} /\ Len(apOut) < MaxCalls
    /\ appendLog' = <<>>
    /\ IF Len(fnIn.trackUris) = 0
       THEN /\ ap' = [NoAppendCall EXCEPT !.pc = "done"]
            /\ apOut' = Append(apOut, AppendResult(0, 0))
       ELSE /\ ap' = [NoAppendCall EXCEPT !.pc = "list", !.trackUris = fnIn.trackUris]
            /\ UNCHANGED apOut
    /\ UNCHANGED plItems

\* The page of playlist items at an offset, and the offset its next cursor
\* stands for (0 when there is none).
PageItems(items, offset) == SubSeq(items, offset + 1, Min(Len(items), offset + LIST_LIMIT))
PageNext(items, offset) == IF offset + LIST_LIMIT < Len(items) THEN offset + LIST_LIMIT ELSE 0

\* One page arrived: fetch on while there is a next cursor; after the last
\* page filter, and return when nothing is new.
AppendListPage ==
    /\ ap.pc = "list"
    /\ LET page == PageItems(plItems, ap.offset)
           next == PageNext(plItems, ap.offset)
           existing == ap.existingUris \cup {page[k] : k \in 1..Len(page)}
           fresh == NewUris(ap.trackUris, existing)
           dupes == Len(ap.trackUris) - Len(fresh) IN
       IF next # 0 THEN
           /\ ap' = [ap EXCEPT !.existingUris = existing, !.offset = next]
           /\ UNCHANGED apOut
       ELSE IF Len(fresh) = 0 THEN
           /\ ap' = [ap EXCEPT !.existingUris = existing, !.newUris = fresh,
                               !.skipped = dupes, !.pc = "done"]
           /\ apOut' = Append(apOut, AppendResult(0, dupes))
       ELSE
           /\ ap' = [ap EXCEPT !.existingUris = existing, !.newUris = fresh,
                               !.skipped = dupes, !.i = 0, !.added = 0, !.pc = "append"]
           /\ UNCHANGED apOut
    /\ UNCHANGED <<plItems, appendLog>>

\* One batch is posted and stored by the service; the loop goes on or the
\* call returns.
AppendPostBatch ==
    /\ ap.pc = "append"
    /\ LET batch == Batch(ap.newUris, ap.i)
           done == ap.added + Len(batch) IN
       /\ appendLog' = Append(appendLog, batch)
       /\ plItems' = plItems \o batch
       /\ IF ap.i + TRACKS_PER_BATCH < Len(ap.newUris)
          THEN /\ ap' = [ap EXCEPT !.added = done, !.i = ap.i + TRACKS_PER_BATCH]
               /\ UNCHANGED apOut
          ELSE /\ ap' = [ap EXCEPT !.added = done, !.pc = "done"]
               /\ apOut' = Append(apOut, AppendResult(done, ap.skipped))

\* A request of the call fails: spotifyRequest throws and so does the call.
AppendThrows ==
    /\ ap.pc \in {"list", "append"}
    /\ ap' = [ap EXCEPT !.pc = "done"]
    /\ apOut' = Append(apOut, AppendThrown)
    /\ UNCHANGED <<plItems, appendLog>>

\* The stats the handler reports after the call: the assignments from
\* addResult run only when the call returned; when it threw, the catch block
\* reports stats as they were.
StatsOfAppend(st, addResult) ==
    IF addResult.thrown THEN st
    ELSE [st EXCEPT !.tracksAdded = addResult.added, !.tracksSkipped = addResult.skipped]

NextAppend ==
    /\ \/ AppendCall
       \/ AppendListPage
       \/ AppendPostBatch
       \/ AppendThrows
    /\ UNCHANGED <<envVars, pc, httpVars, runVars, pubVars, outVars, fnIn, fnOut,
                 submitVars, apiVars>>

SpecAppend == InitAppend /\ [][NextAppend]_vars

(******************* getAccessToken called on a cache **********************)
\* Clock readings are multiples of ten seconds, up to MaxTicks of them.
MaxTicks == 15
ClockReadings == {k * 10000 : k \in 0..MaxTicks}
\* The module's cache: empty as loaded, or a token with its expiry time.
CachedTokens ==
    {[token |-> Null, expiresAt |-> 0]}
        \cup {[token |-> "tokA", expiresAt |-> k * 30000] : k \in 1..5}

InitToken ==
    /\ configDoc = [found |-> TRUE, hasVars |-> TRUE, vars |-> FullVars]
    /\ tokenCache \in CachedTokens
    /\ pc = "Authenticate"
    /\ rq = "idle" /\ call = NoCall /\ req = NoReq /\ prevReq = NoReq
    /\ retried = FALSE /\ retryAfter = NoStr /\ backoffMs = 0
    /\ lastStatus = 0 /\ inflight = 0 /\ issued = {}
    /\ config = loadConfig(configDoc).spotify
    /\ monthInfo = NoMonth /\ spotifyToken = Null
    /\ links = <<>> /\ linksMonth = NoStr /\ allCandidates = <<>> /\ idx = 0
    /\ matchedTracks = <<>> /\ track = <<>>
    /\ lookupError = "" /\ sleptSince = 0
    /\ playlist = NoPlaylist /\ existingUris = {} /\ newUris = <<>>
    /\ skipped = 0 /\ batchStart = 0 /\ added = 0 /\ nextUrl = Null
    /\ stats = ZeroStats /\ response = <<>> /\ stages = <<>>
    /\ fnIn \in {[f |-> "getAccessToken", cache |-> tokenCache, now |-> n] :
                    n \in ClockReadings}
    /\ fnOut = NoResult
    /\ AppendIdle /\ SubmitIdle /\ ApiIdle

GetAccessToken == AuthenticateAt(fnIn.now)
GetAccessTokenResponse == TokenResponseAt(fnIn.now)

NextToken == GetAccessToken \/ GetAccessTokenResponse

SpecToken == InitToken /\ [][NextToken]_vars

(************ getPreviousMonthBounds, alone and in the handler *************)
\* Years the instants are drawn from, counted from 2025.
MaxYears == 4
\* Instants by their UTC year and UTC month (0-indexed), every month of
\* every year.
Instants == {[year |-> 2025 + y, month |-> m] : y \in 0..MaxYears, m \in 0..11}

\* No handler is running: the function is applied on its own.
InitCalendarFn ==
    /\ configDoc = NoDoc
    /\ tokenCache = [token |-> Null, expiresAt |-> 0]
    /\ pc = "Idle"
    /\ rq = "idle" /\ call = NoCall /\ req = NoReq /\ prevReq = NoReq
    /\ retried = FALSE /\ retryAfter = NoStr /\ backoffMs = 0
    /\ lastStatus = 0 /\ inflight = 0 /\ issued = {}
    /\ config = NoConfig /\ monthInfo = NoMonth /\ spotifyToken = Null
    /\ links = <<>> /\ linksMonth = NoStr /\ allCandidates = <<>> /\ idx = 0
    /\ matchedTracks = <<>> /\ track = <<>>
    /\ lookupError = "" /\ sleptSince = 0
    /\ playlist = NoPlaylist /\ existingUris = {} /\ newUris = <<>>
    /\ skipped = 0 /\ batchStart = 0 /\ added = 0 /\ nextUrl = Null
    /\ stats = ZeroStats /\ response = <<>> /\ stages = <<>>
    /\ fnIn \in {[f |-> "getPreviousMonthBounds", now |-> n] : n \in Instants}
    /\ fnOut = NoResult
    /\ AppendIdle /\ SubmitIdle /\ ApiIdle

ApplyGetPreviousMonthBounds ==
    /\ fnIn.f = "getPreviousMonthBounds" /\ fnOut = NoResult
    /\ fnOut' = <<getPreviousMonthBounds(fnIn.now)>>
    /\ UNCHANGED <<envVars, pc, httpVars, runVars, pubVars, outVars, fnIn, appendVars,
                 submitVars, apiVars>>

\* The function applied to drawn instants, and the handler's runs using it.
InitCalendar == Init \/ InitCalendarFn
NextCalendar == Next \/ ApplyGetPreviousMonthBounds
SpecCalendar == InitCalendar /\ [][NextCalendar]_vars

(********************** extractUrls applied to texts ***********************)
\* Longest text, in tokens.
MaxTokens == 6
\* Tokens of a post's text: a scheme, the rest of a URL, sentence
\* punctuation and a blank.
TextTokens == {"https://", "youtu.be/dQw4", ".", ")", " "}
Texts == SeqsUpTo(TextTokens, MaxTokens) \cup {NoStr}

InitUrls ==
    /\ configDoc = NoDoc
    /\ tokenCache = [token |-> Null, expiresAt |-> 0]
    /\ InitRun
    /\ fnIn \in {[f |-> "extractUrls", text |-> t] : t \in Texts}
    /\ fnOut = NoResult
    /\ AppendIdle /\ SubmitIdle /\ ApiIdle

ApplyExtractUrls ==
    /\ fnIn.f = "extractUrls" /\ fnOut = NoResult
    /\ fnOut' = <<extractUrls(fnIn.text)>>
    /\ UNCHANGED <<envVars, pc, httpVars, runVars, pubVars, outVars, fnIn, appendVars,
                 submitVars, apiVars>>

NextUrls == ApplyExtractUrls

SpecUrls == InitUrls /\ [][NextUrls]_vars

(******************* extractMusicUrls applied to links *********************)
\* Links every pattern of MUSIC_URL_PATTERNS accepts: a scheme, a host and
\* a tail of the pattern.
PatternUrls ==
    UNION {{<<s, h>> \o t : s \in Schemes,
                            h \in MUSIC_URL_PATTERNS[k].hosts,
                            t \in MUSIC_URL_PATTERNS[k].tails} :
           k \in 1..Len(MUSIC_URL_PATTERNS)}
\* What may follow in the link: nothing, or a query that mentions a domain.
QueryTails ==
    {<<>>, <<"?u=", "spotify.com", "/track/", "ABC123">>}
        \cup {<<"?ref=", d>> : d \in {"youtube.com", "youtu.be", "soundcloud.com",
                                      "spotify.com", "bandcamp.com", "tidal.com"}}
SubmittedUrls == {u \o q : u \in PatternUrls, q \in QueryTails}

InitMusicUrls ==
    /\ configDoc = NoDoc
    /\ tokenCache = [token |-> Null, expiresAt |-> 0]
    /\ InitRun
    /\ fnIn \in {[f |-> "extractMusicUrls", url |-> u] : u \in SubmittedUrls}
    /\ fnOut = NoResult
    /\ AppendIdle /\ SubmitIdle /\ ApiIdle

ApplyExtractMusicUrls ==
    /\ fnIn.f = "extractMusicUrls" /\ fnOut = NoResult
    /\ fnOut' = <<extractMusicUrls(fnIn.url)>>
    /\ UNCHANGED <<envVars, pc, httpVars, runVars, pubVars, outVars, fnIn, appendVars,
                 submitVars, apiVars>>

NextMusicUrls == ApplyExtractMusicUrls

SpecMusicUrls == InitMusicUrls /\ [][NextMusicUrls]_vars

(**************** searchTrack's query built from its hints *****************)
\* Raw queries and hints searchTrack may be given; a hint is a text, the
\* empty string, or null.
RawQueries ==
    {<<"https://", "youtu.be", "/", "dQw4">>, <<"daft punk around the world">>,
     <<"Around The World">>, <<"Daft Punk">>}
Hints == {NoStr, <<>>, <<"Daft Punk">>, <<"Around The World">>}

InitQuery ==
    /\ configDoc = NoDoc
    /\ tokenCache = [token |-> Null, expiresAt |-> 0]
    /\ InitRun
    /\ fnIn \in {[f |-> "searchTrack", query |-> q, artist |-> a, track |-> t] :
                    q \in RawQueries, a \in Hints, t \in Hints}
    /\ fnOut = NoResult
    /\ AppendIdle /\ SubmitIdle /\ ApiIdle

ApplySearchQuery ==
    /\ fnIn.f = "searchTrack" /\ fnOut = NoResult
    /\ fnOut' = <<SearchQuery(fnIn.query, fnIn.artist, fnIn.track)>>
    /\ UNCHANGED <<envVars, pc, httpVars, runVars, pubVars, outVars, fnIn, appendVars,
                 submitVars, apiVars>>

NextQuery == ApplySearchQuery

SpecQuery == InitQuery /\ [][NextQuery]_vars

(******************** extractMusicInfo applied to texts ********************)
\* Texts of three (possibly empty) names joined by two separators: dashes
\* with or without blanks around them, "by", a removed phrase, a blank.
Names == {<<>>, <<"Foo">>, <<"Bar">>, <<"Baz">>}
Joiners ==
    {<<" ", "-", " ">>, <<"-">>, <<" ", "---", " ">>, <<" ", "by", " ">>,
     <<" ", "(Official Video)", " ">>, <<" ">>}
InfoTexts ==
    {a \o j \o b \o k \o c : a \in Names, b \in Names, c \in Names,
                             j \in Joiners, k \in Joiners} \cup {NoStr}

InitInfo ==
    /\ configDoc = NoDoc
    /\ tokenCache = [token |-> Null, expiresAt |-> 0]
    /\ InitRun
    /\ fnIn \in {[f |-> "extractMusicInfo", text |-> t] : t \in InfoTexts}
    /\ fnOut = NoResult
    /\ AppendIdle /\ SubmitIdle /\ ApiIdle

ApplyExtractMusicInfo ==
    /\ fnIn.f = "extractMusicInfo" /\ fnOut = NoResult
    /\ fnOut' = <<extractMusicInfo(fnIn.text)>>
    /\ UNCHANGED <<envVars, pc, httpVars, runVars, pubVars, outVars, fnIn, appendVars,
                 submitVars, apiVars>>

NextInfo == ApplyExtractMusicInfo

SpecInfo == InitInfo /\ [][NextInfo]_vars

(**************** a submission through the candidate extractors ************)
\* The submission of the end-to-end example, and other texts with and
\* without a link in them.
DaftPunkText ==
    <<"Check", " ", "out", " ", "Daft", " ", "Punk", " ", "-", " ",
      "Around", " ", "The", " ", "World">>
PostLinks ==
    {<<"https://", "open.spotify.com", "/track/", "ABC123">>,
     <<"https://", "youtu.be", "/", "dQw4">>,
     <<"https://", "example.com">>}
PostTexts ==
    {NoStr, <<>>, <<"Hi">>, DaftPunkText,
     <<"Daft", " ", "Punk", " ", "-", " ", "Around", " ", "The", " ", "World">>,
     <<"Around", " ", "The", " ", "World", " ", "by", " ", "Daft", " ", "Punk">>,
     <<"Around", " ", "The", " ", "World">>,
     <<"(Official Video)">>}
        \cup {t \o <<" ">> \o u : t \in {<<>>, <<"Hi">>, DaftPunkText}, u \in PostLinks}
Posts ==
    [message : PostTexts, story : {NoStr, <<"Around", " ", "The", " ", "World">>},
     link : {NoStr} \cup PostLinks]

InitPost ==
    /\ configDoc = NoDoc
    /\ tokenCache = [token |-> Null, expiresAt |-> 0]
    /\ InitRun
    /\ fnIn \in {[f |-> "extractMusicFromPost", post |-> p] : p \in Posts}
                \cup {[f |-> "extractMusicUrls", url |-> u] :
                         u \in PostLinks \cup {DaftPunkText}}
    /\ fnOut = NoResult
    /\ AppendIdle /\ SubmitIdle /\ ApiIdle

ApplyExtractMusicFromPost ==
    /\ fnIn.f = "extractMusicFromPost" /\ fnOut = NoResult
    /\ fnOut' = <<extractMusicFromPost(fnIn.post)>>
    /\ UNCHANGED <<envVars, pc, httpVars, runVars, pubVars, outVars, fnIn, appendVars,
                 submitVars, apiVars>>

NextPost == ApplyExtractMusicFromPost \/ ApplyExtractMusicUrls

SpecPost == InitPost /\ [][NextPost]_vars

(************************* POST /api/submit-links **************************)
MaxRequests == 2

\* Month keys and links of the requests.
SubmitMonths == {D_2026_01, <<"2", "0", "2", "6", "-", "0", "2">>}
LinkA == <<"https://", "youtu.be", "/", "dQw4">>
LinkB == <<"https://", "open.spotify.com", "/track/", "ABC123">>
\* /[\n,\s]+/
LinkSeparators == {"\n", ",", " "}
\* req.body.links: missing, '', or text with links and words in it.
SubmitInputs ==
    {NoStr, <<>>, <<"Hi">>, LinkA, LinkB,
     LinkA \o <<"\n">> \o LinkB,
     LinkB \o <<",", " ">> \o LinkA,
     LinkA \o <<" ">> \o LinkA \o <<"\n", "Hi">>}

\* raw.split(/[\n,\s]+/) followed by the filter on empty parts.
RECURSIVE SplitParts(_, _)
SplitParts(raw, part) ==
    IF Len(raw) = 0 THEN IF part = <<>> THEN <<>> ELSE <<part>>
    ELSE IF Head(raw) \in LinkSeparators
         THEN (IF part = <<>> THEN <<>> ELSE <<part>>) \o SplitParts(Tail(raw), <<>>)
         ELSE SplitParts(Tail(raw), Append(part, Head(raw)))

\* parseLinks(input): the parts that are http(s) URLs, each once.
parseLinks(input) ==
    SetOrder(SelectSeq(SplitParts(input, <<>>), UrlParses))

\* The frame of one request and the responses of the handler.
NoSubmit ==
    [pc |-> "new", month |-> NoStr, parsedLinks |-> <<>>, existing |-> <<>>,
     newLinks |-> <<>>, duplicates |-> 0, res |-> <<>>]
SubmitError(status) ==
    <<[status |-> status, success |-> FALSE, added |-> 0, duplicatesSkipped |-> 0,
       totalLinks |-> 0]>>
SubmitOk(f) ==
    <<[status |-> 200, success |-> TRUE, added |-> Len(f.newLinks),
       duplicatesSkipped |-> f.duplicates,
       totalLinks |-> (IF f.existing = <<>> THEN 0 ELSE Len(f.existing[1].links))
                      + Len(f.newLinks)]>>

\* collection.findOne({ month }): the first document of the month, if any.
FindOne(coll, month) ==
    LET hits == {k \in 1..Len(coll) : coll[k].month = month} IN
    IF hits = {} THEN <<>> ELSE <<coll[CHOOSE k \in hits : \A l \in hits : k <= l]>>

\* parsedLinks.filter(link => !existingSet.has(link))
NewLinksOf(parsedLinks, existingLinks) ==
    SelectSeq(parsedLinks,
              LAMBDA link : ~\E k \in 1..Len(existingLinks) : existingLinks[k] = link)

InitSubmit ==
    /\ configDoc = NoDoc
    /\ tokenCache = [token |-> Null, expiresAt |-> 0]
    /\ InitRun
    /\ fnIn = NoFn /\ fnOut = NoResult
    /\ AppendIdle
    /\ submittedLinks = <<>>
    /\ sub = [r \in 1..MaxRequests |-> NoSubmit]
    /\ ApiIdle

\* The handler up to its first await: method, body, parseLinks, targetMonth.
SubmitReceive(r) ==
    /\ sub[r].pc = "new"
    /\ \E method \in {"POST", "GET"}, input \in SubmitInputs,
          month \in SubmitMonths \cup {NoStr}, currentMonth \in SubmitMonths :
          LET parsedLinks == parseLinks(input)
              targetMonth == IF Falsy(month) THEN currentMonth ELSE month IN
          sub' = [sub EXCEPT ![r] =
              IF method # "POST" THEN [@ EXCEPT !.pc = "done", !.res = SubmitError(405)]
              ELSE IF Falsy(input) \/ Len(parsedLinks) = 0
              THEN [@ EXCEPT !.pc = "done", !.res = SubmitError(400)]
              ELSE [@ EXCEPT !.pc = "findOne", !.month = targetMonth,
                             !.parsedLinks = parsedLinks]]
    /\ UNCHANGED <<envVars, pc, httpVars, runVars, pubVars, outVars, fnIn, fnOut,
                   appendVars, submittedLinks, apiVars>>

\* findOne answers; the handler filters and goes on to its write, or
\* responds when every link is stored already.
SubmitFindOne(r) ==
    /\ sub[r].pc = "findOne"
    /\ LET existing == FindOne(submittedLinks, sub[r].month)
           f == sub[r] IN
       sub' = [sub EXCEPT ![r] =
           IF existing = <<>>
           THEN [f EXCEPT !.pc = "insertOne", !.newLinks = f.parsedLinks]
           ELSE LET newLinks == NewLinksOf(f.parsedLinks, existing[1].links)
                    g == [f EXCEPT !.existing = existing, !.newLinks = newLinks,
                                   !.duplicates = Len(f.parsedLinks) - Len(newLinks)] IN
                IF Len(newLinks) > 0 THEN [g EXCEPT !.pc = "updateOne"]
                ELSE [g EXCEPT !.pc = "done", !.res = SubmitOk(g)]]
    /\ UNCHANGED <<envVars, pc, httpVars, runVars, pubVars, outVars, fnIn, fnOut,
                   appendVars, submittedLinks, apiVars>>

\* updateOne({ month }, { $push: { links: { $each: newLinks } } }) on the
\* first document of the month, then the 200 response.
SubmitUpdateOne(r) ==
    /\ sub[r].pc = "updateOne"
    /\ LET hits == {k \in 1..Len(submittedLinks) : submittedLinks[k].month = sub[r].month} IN
       submittedLinks' =
           IF hits = {} THEN submittedLinks
           ELSE [submittedLinks EXCEPT ![CHOOSE k \in hits : \A l \in hits : k <= l].links =
                                            @ \o sub[r].newLinks]
    /\ sub' = [sub EXCEPT ![r] = [@ EXCEPT !.pc = "done", !.res = SubmitOk(sub[r])]]
    /\ UNCHANGED <<envVars, pc, httpVars, runVars, pubVars, outVars, fnIn, fnOut,
                   appendVars, apiVars>>

\* insertOne({ month, links: newLinks }), then the 200 response.
SubmitInsertOne(r) ==
    /\ sub[r].pc = "insertOne"
    /\ submittedLinks' =
           Append(submittedLinks, [month |-> sub[r].month, links |-> sub[r].newLinks])
    /\ sub' = [sub EXCEPT ![r] = [@ EXCEPT !.pc = "done", !.res = SubmitOk(sub[r])]]
    /\ UNCHANGED <<envVars, pc, httpVars, runVars, pubVars, outVars, fnIn, fnOut,
                   appendVars, apiVars>>

\* The database call throws: the catch block answers 500.
SubmitFails(r) ==
    /\ sub[r].pc \in {"findOne", "updateOne", "insertOne"}
    /\ sub' = [sub EXCEPT ![r] = [@ EXCEPT !.pc = "done", !.res = SubmitError(500)]]
    /\ UNCHANGED <<envVars, pc, httpVars, runVars, pubVars, outVars, fnIn, fnOut,
                   appendVars, submittedLinks, apiVars>>

NextSubmit ==
    \E r \in 1..MaxRequests :
        \/ SubmitReceive(r)
        \/ SubmitFindOne(r)
        \/ SubmitUpdateOne(r)
        \/ SubmitInsertOne(r)
        \/ SubmitFails(r)

SpecSubmit == InitSubmit /\ [][NextSubmit]_vars

(***************************** GET /api/admin ******************************)
\* process.env.ADMIN_SECRET when set, and what a request may send instead.
AdminSecret == <<"s3cret-admin">>
AdminSecretEnvs == {NoStr, <<>>, AdminSecret}
AuthHeaders ==
    {NoStr, <<"Bearer ">>, <<"Bearer ", "s3cret-admin">>, <<"s3cret-admin">>,
     <<"Bearer ", "guess">>, <<"Basic ", "s3cret-admin">>}

\* Credential values of 6, 8, 9 and 12 characters.
ValueChars == <<"s", "k", "-", "l", "i", "v", "e", "-", "9", "f", "2", "c">>
CredentialValues == {SubSeq(ValueChars, 1, n) : n \in {6, 8, 9, 12}}
CredentialKeys == {"SPOTIFY_CLIENT_SECRET", "SPOTIFY_REFRESH_TOKEN"}
\* The configs collection: no document, or the document of project "default".
StoredConfigs ==
    {<<>>} \cup {<<[projectId |-> "default", vars |-> v]>> :
                    v \in [CredentialKeys -> CredentialValues]}

\* authHeader.replace('Bearer ', ''): the first occurrence is removed.
RemoveFirst(header, tok) ==
    LET hits == {k \in 1..Len(header) : header[k] = tok} IN
    IF hits = {} THEN header
    ELSE LET k == CHOOSE x \in hits : \A y \in hits : x <= y IN
         SubSeq(header, 1, k - 1) \o SubSeq(header, k + 1, Len(header))

isAuthorized(authorization, adminSecret) ==
    IF Falsy(adminSecret) THEN FALSE
    ELSE LET authHeader == IF Falsy(authorization) THEN <<>> ELSE authorization
             token == RemoveFirst(authHeader, "Bearer ") IN
         token = adminSecret

\* `${value.slice(0, 4)}...${value.slice(-4)}` for strings longer than 8.
MaskValue(value) ==
    IF Len(value) > 8
    THEN SubSeq(value, 1, 4) \o <<".", ".", ".">> \o SubSeq(value, Len(value) - 3, Len(value))
    ELSE value
maskSecrets(configVars) == [key \in DOMAIN configVars |-> MaskValue(configVars[key])]

AdminError(status) ==
    [status |-> status, success |-> FALSE, config |-> <<>>, configs |-> <<>>]
\* listConfigs(): the projection keeps projectId and the timestamps.
listConfigs(stored) == [k \in 1..Len(stored) |-> [projectId |-> stored[k].projectId]]

\* The admin handler's response to one request.
AdminResponse(q) ==
    IF q.method # "GET" THEN AdminError(405)
    ELSE IF q.dbFails THEN AdminError(500)
    ELSE IF ~Falsy(q.projectId)
    THEN LET found == SelectSeq(q.stored, LAMBDA doc : <<doc.projectId>> = q.projectId)
             wantsSecrets == q.showSecrets = <<"true">>
             authorized == isAuthorized(q.authorization, q.adminSecret) IN
         IF found = <<>> THEN AdminError(404)
         ELSE IF wantsSecrets /\ ~authorized THEN AdminError(401)
         ELSE [status |-> 200, success |-> TRUE,
               config |-> <<[projectId |-> found[1].projectId,
                             vars |-> IF wantsSecrets /\ authorized THEN found[1].vars
                                      ELSE maskSecrets(found[1].vars),
                             secretsVisible |-> wantsSecrets /\ authorized]>>,
               configs |-> <<>>]
    ELSE [status |-> 200, success |-> TRUE, config |-> <<>>,
          configs |-> listConfigs(q.stored)]

InitAdmin ==
    /\ configDoc = NoDoc
    /\ tokenCache = [token |-> Null, expiresAt |-> 0]
    /\ InitRun
    /\ fnIn \in [f : {"admin"}, method : {"GET", "POST"}, dbFails : BOOLEAN,
                 projectId : {NoStr, <<"default">>, <<"other">>},
                 showSecrets : {NoStr, <<"true">>, <<"false">>},
                 authorization : AuthHeaders, adminSecret : AdminSecretEnvs,
                 stored : StoredConfigs]
    /\ fnOut = NoResult
    /\ AppendIdle /\ SubmitIdle /\ ApiIdle

AdminHandler ==
    /\ fnIn.f = "admin" /\ fnOut = NoResult
    /\ fnOut' = <<AdminResponse(fnIn)>>
    /\ UNCHANGED <<envVars, pc, httpVars, runVars, pubVars, outVars, fnIn, appendVars,
                   submitVars, apiVars>>

NextAdmin == AdminHandler

SpecAdmin == InitAdmin /\ [][NextAdmin]_vars

(********************** /api/auth/login and verify *************************)
MaxLogins == 2
MaxHours == 48
TOKEN_TTL_HOURS == 24

AdminPassword == "hunter2"
Passwords == {NoStr, <<"hunter2">>, <<"letmein">>}
AdminPasswordEnvs == {NoStr, <<"hunter2">>}

\* The statements of login.js that assign to module.exports, in order: line
\* 25 sets a property of the exports object, line 30 replaces the object.
LoginModuleExports ==
    <<[op |-> "property", name |-> "validTokens"],
      [op |-> "replace", name |-> "handler"]>>
\* The properties require('./login') carries after the module has loaded.
RECURSIVE ExportedProperties(_)
ExportedProperties(assignments) ==
    IF Len(assignments) = 0 THEN {}
    ELSE LET before == ExportedProperties(SubSeq(assignments, 1, Len(assignments) - 1))
             last == assignments[Len(assignments)] IN
         IF last.op = "replace" THEN {} ELSE before \cup {last.name}

NoAuth == [issued |-> {}, timers |-> {}, res |-> <<>>]
AuthResponse(endpoint, status, header, token) ==
    <<[endpoint |-> endpoint, status |-> status, header |-> header, token |-> token,
       at |-> authNow]>>

InitAuth ==
    /\ configDoc = NoDoc
    /\ tokenCache = [token |-> Null, expiresAt |-> 0]
    /\ InitRun
    /\ fnIn = NoFn /\ fnOut = NoResult
    /\ AppendIdle /\ SubmitIdle
    /\ validTokens = {} /\ authNow = 0 /\ storedVars = <<>> /\ votes = <<>>
    /\ api = NoAuth

\* The login handler; generateToken() gives a token not given before.
Login ==
    /\ \E method \in {"POST", "GET"}, password \in Passwords,
          adminPassword \in AdminPasswordEnvs :
          IF method # "POST"
          THEN /\ api' = [api EXCEPT !.res = AuthResponse("login", 405, NoStr, 0)]
               /\ UNCHANGED validTokens
          ELSE IF Falsy(password)
          THEN /\ api' = [api EXCEPT !.res = AuthResponse("login", 400, NoStr, 0)]
               /\ UNCHANGED validTokens
          ELSE IF Falsy(adminPassword)
          THEN /\ api' = [api EXCEPT !.res = AuthResponse("login", 500, NoStr, 0)]
               /\ UNCHANGED validTokens
          ELSE IF password # adminPassword
          THEN /\ api' = [api EXCEPT !.res = AuthResponse("login", 401, NoStr, 0)]
               /\ UNCHANGED validTokens
          ELSE LET token == Cardinality(api.issued) + 1 IN
               /\ token <= MaxLogins
               /\ validTokens' = validTokens \cup {token}
               /\ api' = [issued |-> api.issued \cup {[token |-> token, at |-> authNow]},
                          timers |-> api.timers \cup
                                       {[token |-> token, due |-> authNow + TOKEN_TTL_HOURS]},
                          res |-> AuthResponse("login", 200, NoStr, token)]
    /\ UNCHANGED <<envVars, pc, httpVars, runVars, pubVars, outVars, fnIn, fnOut,
                   appendVars, submitVars, authNow, storedVars, votes>>

\* The callback of setTimeout runs, no earlier than it is due.
TokenTimer ==
    /\ \E t \in api.timers :
          /\ authNow >= t.due
          /\ validTokens' = validTokens \ {t.token}
          /\ api' = [api EXCEPT !.timers = @ \ {t}]
    /\ UNCHANGED <<envVars, pc, httpVars, runVars, pubVars, outVars, fnIn, fnOut,
                   appendVars, submitVars, authNow, storedVars, votes>>

\* Half a token lifetime passes; a timer that is due runs before the clock
\* moves on.
HoursPass ==
    /\ authNow + TOKEN_TTL_HOURS \div 2 <= MaxHours
    /\ \A t \in api.timers : authNow < t.due
    /\ authNow' = authNow + TOKEN_TTL_HOURS \div 2
    /\ UNCHANGED <<envVars, pc, httpVars, runVars, pubVars, outVars, fnIn, fnOut,
                   appendVars, submitVars, validTokens, storedVars, votes, api>>

\* Authorization headers: none, a Bearer token (0 was never issued), or
\* another scheme.
VerifyHeaders ==
    {NoStr} \cup {<<"Bearer ", t>> : t \in 0..MaxLogins}
            \cup {<<"Basic ", t>> : t \in 1..MaxLogins}

\* The verify handler.  validTokens is what require('./login') carries under
\* that name; calling has() on undefined throws and the request fails (500).
Verify ==
    /\ \E authHeader \in VerifyHeaders :
          api' = [api EXCEPT !.res =
              IF Falsy(authHeader) \/ authHeader[1] # "Bearer "
              THEN AuthResponse("verify", 401, authHeader, 0)
              ELSE LET token == authHeader[2] IN
                   IF "validTokens" \notin ExportedProperties(LoginModuleExports)
                   THEN AuthResponse("verify", 500, authHeader, token)
                   ELSE IF token \notin validTokens
                   THEN AuthResponse("verify", 401, authHeader, token)
                   ELSE AuthResponse("verify", 200, authHeader, token)]
    /\ UNCHANGED <<envVars, pc, httpVars, runVars, pubVars, outVars, fnIn, fnOut,
                   appendVars, submitVars, validTokens, authNow, storedVars, votes>>

NextAuth == Login \/ TokenTimer \/ HoursPass \/ Verify

SpecAuth == InitAuth /\ [][NextAuth]_vars

(*************************** POST /api/save-config *************************)
FACEBOOK_KEYS == <<"FB_TOKEN", "GROUP_ID">>
SPOTIFY_KEYS ==
    <<"SPOTIFY_CLIENT_ID", "SPOTIFY_CLIENT_SECRET", "SPOTIFY_USER_ID", "SPOTIFY_REFRESH_TOKEN">>
Range(seq) == {seq[k] : k \in 1..Len(seq)}
ConfigKeys == Range(FACEBOOK_KEYS) \cup Range(SPOTIFY_KEYS)

\* vars of the stored document of project "default": a key not stored is
\* NoStr.  Before the requests: no document, or a complete one.
NoVars == [key \in ConfigKeys |-> NoStr]
OldVars == [key \in ConfigKeys |-> <<"old">>]

\* Request bodies: a section name (or none), and form values for the keys
\* of one section or of both, complete or with a field left out or blank.
FormValues == {<<"new">>, <<" ", "pasted", " ">>}
Filled(keys, value, hole, blank) ==
    [key \in ConfigKeys |-> IF key = hole THEN blank
                            ELSE IF key \in keys THEN value ELSE NoStr]
SaveBodies ==
    {[section |-> sec, data |-> Filled(keys, v, hole, blank)] :
        sec \in {NoStr, <<"facebook">>, <<"spotify">>},
        keys \in {Range(FACEBOOK_KEYS), Range(SPOTIFY_KEYS), ConfigKeys},
        v \in FormValues,
        hole \in {"none", "GROUP_ID"},
        blank \in {NoStr, <<" ">>}}

\* keysToValidate of a section
KeysToValidate(section) ==
    IF section = <<"facebook">> THEN FACEBOOK_KEYS
    ELSE IF section = <<"spotify">> THEN SPOTIFY_KEYS
    ELSE FACEBOOK_KEYS \o SPOTIFY_KEYS

\* validateSection(data, keys).missing
Missing(data, keys) == SelectSeq(keys, LAMBDA key : Falsy(data[key]) \/ Trim(data[key]) = <<>>)

\* vars = { ...existingVars } with the section's fields of the form put in.
MergedVars(existingVars, data, keys) ==
    [key \in ConfigKeys |->
        IF key \in Range(keys) /\ ~Falsy(data[key]) THEN Trim(data[key])
        ELSE existingVars[key]]

\* The frame of one request; before and after hold storedVars around its
\* saveConfig call.
NoSave ==
    [pc |-> "new", authorization |-> NoStr, section |-> NoStr, data |-> NoVars,
     existingVars |-> NoVars, status |-> 0, wrote |-> FALSE, before |-> NoVars,
     after |-> NoVars]

InitSave ==
    /\ configDoc = NoDoc
    /\ tokenCache = [token |-> Null, expiresAt |-> 0]
    /\ InitRun
    /\ fnIn = NoFn /\ fnOut = NoResult
    /\ AppendIdle /\ SubmitIdle
    /\ validTokens = {1} /\ authNow = 0 /\ votes = <<>>
    /\ storedVars \in {NoVars, OldVars}
    /\ api = [r \in 1..MaxRequests |-> NoSave]

\* The handler up to its first await: method, body, section, validation.
SaveReceive(r) ==
    /\ api[r].pc = "new"
    /\ \E method \in {"POST", "GET"}, body \in SaveBodies \cup {[section |-> NoStr, data |-> NoStr]},
          authorization \in {NoStr, <<"Bearer ", 0>>, <<"Bearer ", 1>>} :
          api' = [api EXCEPT ![r] =
              IF method # "POST"
              THEN [@ EXCEPT !.pc = "done", !.status = 405, !.authorization = authorization]
              ELSE IF body.data = NoStr
              THEN [@ EXCEPT !.pc = "done", !.status = 400, !.authorization = authorization]
              ELSE IF Len(Missing(body.data, KeysToValidate(body.section))) > 0
              THEN [@ EXCEPT !.pc = "done", !.status = 400, !.authorization = authorization,
                             !.section = body.section, !.data = body.data]
              ELSE [@ EXCEPT !.pc = "getConfig", !.authorization = authorization,
                             !.section = body.section, !.data = body.data]]
    /\ UNCHANGED <<envVars, pc, httpVars, runVars, pubVars, outVars, fnIn, fnOut,
                   appendVars, submitVars, validTokens, authNow, storedVars, votes>>

\* getConfig('default') answers.
SaveGetConfig(r) ==
    /\ api[r].pc = "getConfig"
    /\ api' = [api EXCEPT ![r] = [@ EXCEPT !.pc = "saveConfig", !.existingVars = storedVars]]
    /\ UNCHANGED <<envVars, pc, httpVars, runVars, pubVars, outVars, fnIn, fnOut,
                   appendVars, submitVars, validTokens, authNow, storedVars, votes>>

\* saveConfig('default', vars): $set of the whole vars object, then 200.
SaveSaveConfig(r) ==
    /\ api[r].pc = "saveConfig"
    /\ LET merged == MergedVars(api[r].existingVars, api[r].data,
                                KeysToValidate(api[r].section)) IN
       /\ storedVars' = merged
       /\ api' = [api EXCEPT ![r] = [@ EXCEPT !.pc = "done", !.status = 200, !.wrote = TRUE,
                                              !.before = storedVars, !.after = merged]]
    /\ UNCHANGED <<envVars, pc, httpVars, runVars, pubVars, outVars, fnIn, fnOut,
                   appendVars, submitVars, validTokens, authNow, votes>>

\* A database call throws: the catch block answers 500.
SaveFails(r) ==
    /\ api[r].pc \in {"getConfig", "saveConfig"}
    /\ api' = [api EXCEPT ![r] = [@ EXCEPT !.pc = "done", !.status = 500]]
    /\ UNCHANGED <<envVars, pc, httpVars, runVars, pubVars, outVars, fnIn, fnOut,
                   appendVars, submitVars, validTokens, authNow, storedVars, votes>>

NextSave ==
    \E r \in 1..MaxRequests :
        \/ SaveReceive(r)
        \/ SaveGetConfig(r)
        \/ SaveSaveConfig(r)
        \/ SaveFails(r)

SpecSave == InitSave /\ [][NextSave]_vars

(******************************* /api/vote *********************************)
\* The votes hash of the current month is a list of fields in the order
\* hgetall lists them, each a track id and the stored JSON string.
VoteTracks == {"t1", "t2"}
\* JSON.stringify(voteData) and JSON.parse; a value the client has parsed
\* already is used as it is.
Stringify(voteData) == [json |-> voteData]
Parsed(stored) == IF "json" \in DOMAIN stored THEN stored.json ELSE stored
VoteData(trackName, artists, n) == [trackName |-> trackName, artists |-> artists, votes |-> n]
VoteHashes ==
    {<<>>,
     <<[trackId |-> "t1", data |-> Stringify(VoteData("One", <<"a1">>, 1))],
       [trackId |-> "t2", data |-> Stringify(VoteData("Two", <<>>, 3))]>>}

\* kv.hget(voteKey, trackId): the field's value, or none.
Hget(hash, trackId) ==
    LET hits == {k \in 1..Len(hash) : hash[k].trackId = trackId} IN
    IF hits = {} THEN <<>> ELSE <<hash[CHOOSE k \in hits : TRUE].data>>
\* kv.hset(voteKey, { [trackId]: value }): the field is replaced in place or
\* added at the end.
Hset(hash, trackId, value) ==
    IF Hget(hash, trackId) = <<>>
    THEN Append(hash, [trackId |-> trackId, data |-> value])
    ELSE [k \in 1..Len(hash) |->
             IF hash[k].trackId = trackId THEN [hash[k] EXCEPT !.data = value] ELSE hash[k]]

\* .sort((a, b) => b.votes - a.votes): stable, highest count first.
RECURSIVE SortByVotes(_)
SortByVotes(results) ==
    IF Len(results) = 0 THEN <<>>
    ELSE LET rest == SortByVotes(Tail(results))
             ahead == SelectSeq(rest, LAMBDA x : x.votes > Head(results).votes)
             behind == SelectSeq(rest, LAMBDA x : x.votes <= Head(results).votes) IN
         ahead \o <<Head(results)>> \o behind
\* The results of GET from what hgetall answered.
VoteResults(hash) ==
    SortByVotes([k \in 1..Len(hash) |->
                    [trackId |-> hash[k].trackId,
                     trackName |-> Parsed(hash[k].data).trackName,
                     artists |-> Parsed(hash[k].data).artists,
                     votes |-> Parsed(hash[k].data).votes]])

\* voteData of a POST from what hget answered.
NextVoteData(existing, trackName, artists) ==
    IF existing # <<>>
    THEN VoteData(trackName,
                  IF artists # NoStr THEN artists ELSE Parsed(existing[1]).artists,
                  Parsed(existing[1]).votes + 1)
    ELSE VoteData(trackName, IF artists # NoStr THEN artists ELSE <<>>, 1)

NoVote ==
    [pc |-> "new", method |-> "GET", trackId |-> "", trackName |-> "", artists |-> NoStr,
     voteData |-> VoteData("", <<>>, 0), status |-> 0, results |-> <<>>]

InitVote ==
    /\ configDoc = NoDoc
    /\ tokenCache = [token |-> Null, expiresAt |-> 0]
    /\ InitRun
    /\ fnIn = NoFn /\ fnOut = NoResult
    /\ AppendIdle /\ SubmitIdle
    /\ validTokens = {} /\ authNow = 0 /\ storedVars = <<>>
    /\ votes \in VoteHashes
    /\ api = [base |-> votes, req |-> [r \in 1..MaxRequests |-> NoVote]]

\* The handler up to its first await.
VoteReceive(r) ==
    /\ api.req[r].pc = "new"
    /\ \E method \in {"GET", "POST", "PUT"}, trackId \in VoteTracks \cup {""},
          trackName \in {"", "Song"}, artists \in {NoStr, <<"a2">>} :
          api' = [api EXCEPT !.req[r] =
              IF method = "GET" THEN [@ EXCEPT !.pc = "hgetall", !.method = method]
              ELSE IF method # "POST"
              THEN [@ EXCEPT !.pc = "done", !.method = method, !.status = 405]
              ELSE IF trackId = "" \/ trackName = ""
              THEN [@ EXCEPT !.pc = "done", !.method = method, !.status = 400]
              ELSE [@ EXCEPT !.pc = "hget", !.method = method, !.trackId = trackId,
                             !.trackName = trackName, !.artists = artists]]
    /\ UNCHANGED <<envVars, pc, httpVars, runVars, pubVars, outVars, fnIn, fnOut,
                   appendVars, submitVars, validTokens, authNow, storedVars, votes>>

\* GET: hgetall answers and the sorted results are sent.
VoteHgetall(r) ==
    /\ api.req[r].pc = "hgetall"
    /\ api' = [api EXCEPT !.req[r] =
                  [@ EXCEPT !.pc = "done", !.status = 200, !.results = VoteResults(votes)]]
    /\ UNCHANGED <<envVars, pc, httpVars, runVars, pubVars, outVars, fnIn, fnOut,
                   appendVars, submitVars, validTokens, authNow, storedVars, votes>>

\* POST: hget answers and voteData is computed.
VoteHget(r) ==
    /\ api.req[r].pc = "hget"
    /\ api' = [api EXCEPT !.req[r] =
                  [@ EXCEPT !.pc = "hset",
                            !.voteData = NextVoteData(Hget(votes, api.req[r].trackId),
                                                      api.req[r].trackName,
                                                      api.req[r].artists)]]
    /\ UNCHANGED <<envVars, pc, httpVars, runVars, pubVars, outVars, fnIn, fnOut,
                   appendVars, submitVars, validTokens, authNow, storedVars, votes>>

\* POST: hset stores the JSON string.
VoteHset(r) ==
    /\ api.req[r].pc = "hset"
    /\ votes' = Hset(votes, api.req[r].trackId, Stringify(api.req[r].voteData))
    /\ api' = [api EXCEPT !.req[r] = [@ EXCEPT !.pc = "expire"]]
    /\ UNCHANGED <<envVars, pc, httpVars, runVars, pubVars, outVars, fnIn, fnOut,
                   appendVars, submitVars, validTokens, authNow, storedVars>>

\* POST: expire answers and the 200 response is sent.
VoteExpire(r) ==
    /\ api.req[r].pc = "expire"
    /\ api' = [api EXCEPT !.req[r] = [@ EXCEPT !.pc = "done", !.status = 200]]
    /\ UNCHANGED <<envVars, pc, httpVars, runVars, pubVars, outVars, fnIn, fnOut,
                   appendVars, submitVars, validTokens, authNow, storedVars, votes>>

\* A call to the store throws: the catch block answers 503 or 500 (GET
\* answers 200 with no results when the store is not configured).
VoteFails(r) ==
    /\ api.req[r].pc \in {"hgetall", "hget", "hset", "expire"}
    /\ \E status \in (IF api.req[r].method = "GET" THEN {200, 500} ELSE {503, 500}) :
          api' = [api EXCEPT !.req[r] = [@ EXCEPT !.pc = "done", !.status = status]]
    /\ UNCHANGED <<envVars, pc, httpVars, runVars, pubVars, outVars, fnIn, fnOut,
                   appendVars, submitVars, validTokens, authNow, storedVars, votes>>

NextVote ==
    \E r \in 1..MaxRequests :
        \/ VoteReceive(r)
        \/ VoteHgetall(r)
        \/ VoteHget(r)
        \/ VoteHset(r)
        \/ VoteExpire(r)
        \/ VoteFails(r)

SpecVote == InitVote /\ [][NextVote]_vars

(********************************* claims **********************************)
\* A release date of month precision or finer that lies in the run's month.
InTargetMonth(releaseDate) ==
    /\ releaseDate # NoStr
    /\ Len(releaseDate) >= 7
    /\ \A i \in 1..7 : releaseDate[i] = monthInfo.yearMonth[i]

\* C1: every track of the matched set, and every URI submitted to the new
\* playlist, has a release date of length >= 7 that starts with the run's
\* yearMonth key; a bare year is never accepted.
C1_MatchedInTargetMonth ==
    /\ \A i \in 1..Len(matchedTracks) : InTargetMonth(matchedTracks[i].releaseDate)
    /\ req.url.endpoint = "append" =>
          \A k \in 1..Len(req.body) :
              \E i \in 1..Len(matchedTracks) :
                  /\ matchedTracks[i].uri = req.body[k]
                  /\ InTargetMonth(matchedTracks[i].releaseDate)

\* C1 witness: a direct-id candidate and a search candidate both matched and
\* their URIs are being appended.
C1_Witness ==
    /\ Len(allCandidates) = 2
    /\ allCandidates[1].spotifyTrackId # Null
    /\ allCandidates[2].spotifyTrackId = Null
    /\ Len(matchedTracks) = 2
    /\ req.url.endpoint = "append" /\ Len(req.body) = 2

\* C2: isReleasedInMonth(d, t) is true iff length(d) >= 7 and d starts with t.
C2_ReleasedIffPrefix ==
    (fnIn.f = "isReleasedInMonth" /\ fnOut # NoResult) =>
        (fnOut[1] <=> (/\ Len(fnIn.d) >= 7
                       /\ \A i \in 1..Len(fnIn.t) : fnIn.d[i] = fnIn.t[i]))

\* C2 witness: the documented bare-year example was decided, and rejected.
C2_Witness ==
    /\ fnIn.f = "isReleasedInMonth"
    /\ fnIn.d = D_2026 /\ fnIn.t = D_2026_01
    /\ fnOut = <<FALSE>>

\* The candidate the resolve loop is at.
AtCandidate == pc \in {"Resolve", "ResolveSleep"} /\ idx \in 1..Len(allCandidates)

\* C3: a candidate with a direct track id gets the get-track-by-id request
\* only, never a search request, whatever the lookup's outcome and whatever
\* else the candidate carries; a mismatch or an error yields no track.
C3_DirectIdNeverSearches ==
    (AtCandidate /\ allCandidates[idx].spotifyTrackId # Null) =>
        /\ (rq # "idle" \/ pc = "ResolveSleep") =>
              /\ req.url.endpoint = "tracks"
              /\ req.url.arg = <<allCandidates[idx].spotifyTrackId>>
        /\ (pc = "ResolveSleep" /\ lookupError # "") => track = <<>>
        /\ (pc = "ResolveSleep" /\ track # <<>>) => InTargetMonth(track[1].releaseDate)

\* C3 witness: a direct-id candidate that also carries a search query was
\* looked up, the track's release date did not match, and no track came back.
C3_Witness ==
    /\ pc = "ResolveSleep" /\ idx \in 1..Len(allCandidates)
    /\ allCandidates[idx].spotifyTrackId # Null
    /\ allCandidates[idx].searchQuery # <<>>
    /\ lastStatus = 200 /\ lookupError = "" /\ track = <<>>
    /\ issued \cap {"search"} = {}

\* The handler returned through its top-level catch.
Failed == pc = "Done" /\ Len(stages) > 0 /\ stages[Len(stages)] = "ReportFailure"

\* The stage whose request failed last, read from the request itself.
PublishRequestFailed ==
    /\ pc = "Done"
    /\ req.url.endpoint \in {"create", "list", "append"}
    /\ lastStatus # 200

\* C4: whatever stage raises, the handler sends exactly one response, with a
\* non-2xx status, success = false and the stats accumulated so far; it never
\* returns without a response.
C4_FailureReported ==
    /\ Len(response) <= 1
    /\ pc = "Done" => Len(response) = 1
    /\ (pc = "Done" /\ (PublishRequestFailed
                        \/ (req.url.endpoint = "token" /\ lastStatus # 200)
                        \/ ~(configDoc.found /\ configDoc.hasVars))) => Failed
    /\ Failed =>
          /\ response[1].status \notin 200..299
          /\ response[1].success = FALSE
          /\ response[1].stats.linksSubmitted = Len(links)
          /\ response[1].stats.musicCandidates = Len(allCandidates)
          /\ response[1].stats.tracksMatched =
                (IF "create" \in issued THEN Len(matchedTracks) ELSE 0)
          /\ response[1].stats.tracksSkipped = 0

\* C4 witness: the append request failed after two tracks had matched.
C4_Witness ==
    /\ Failed
    /\ req.url.endpoint = "append" /\ lastStatus = 500
    /\ response[1].stats.tracksMatched = 2

\* A run that ended without a failure and without a matched track.
EmptyRun == pc = "Done" /\ ~Failed /\ Len(matchedTracks) = 0

\* C5: a run with no links, no candidates or no matches answers 200 with
\* success = true and no playlist, issues no create and no append request,
\* and reports zero for the counters of the steps it did not reach.
C5_EmptyRunSucceeds ==
    EmptyRun =>
        /\ Len(response) = 1
        /\ response[1].status = 200
        /\ response[1].success = TRUE
        /\ response[1].playlist = <<>>
        /\ issued \cap {"create", "list", "append"} = {}
        /\ response[1].stats.linksSubmitted = Len(links)
        /\ response[1].stats.musicCandidates = Len(allCandidates)
        /\ response[1].stats.tracksMatched = 0
        /\ response[1].stats.tracksAdded = 0
        /\ response[1].stats.tracksSkipped = 0

\* C5 witness: two candidates were looked up and none matched.
C5_Witness ==
    /\ EmptyRun
    /\ Len(allCandidates) = 2 /\ idx = 3
    /\ response[1].status = 200

StageOrder ==
    <<"LoadConfig", "ComputeTargetMonth", "Authenticate", "GatherRawLinks",
      "ExtractCandidates", "ResolveCandidates", "CreateCollection", "AppendTracks",
      "ReportSuccess">>
EarlyReports == {"ReportFailure", "ReportEmpty"}

\* The stored configuration has every required field.
ConfigComplete ==
    /\ configDoc.found /\ configDoc.hasVars
    /\ \A k \in 1..Len(REQUIRED_FIELDS) : configDoc.vars[REQUIRED_FIELDS[k]] # ""

\* C6: the stages occur in the fixed order, none twice; no request to the
\* streaming service precedes a successful config load, no resolve request
\* precedes token acquisition, no append precedes a successful create.
C6_StagesInOrder ==
    /\ LET n == IF Len(stages) > 0 /\ stages[Len(stages)] \in EarlyReports
                THEN Len(stages) - 1 ELSE Len(stages)
       IN  /\ n <= Len(StageOrder)
           /\ SubSeq(stages, 1, n) = SubSeq(StageOrder, 1, n)
    /\ issued # {} => ConfigComplete
    /\ issued \cap {"tracks", "search", "create", "list", "append"} # {} =>
          /\ spotifyToken # Null
          /\ "Authenticate" \in {stages[k] : k \in 1..Len(stages)}
    /\ (rq # "idle" /\ pc # "Authenticate") => req.token = spotifyToken
    /\ issued \cap {"list", "append"} # {} => playlist.id # Null

\* C6 witness: a run that went through every stage.
C6_Witness == pc = "Done" /\ stages = StageOrder

\* C7: a failed lookup is recorded in stats.errors and the candidate counts
\* as no match (the run then goes on with the next candidate).
C7_LookupFailureRecorded ==
    (pc = "ResolveSleep" /\ lookupError # "") =>
        /\ track = <<>>
        /\ \E k \in 1..Len(stats.errors) : stats.errors[k] = lookupError

\* The delay spotifyRequest must wait for a Retry-After header, in ms.
ExpectedWait(header) ==
    CASE header = NoStr       -> 5000
      [] header = <<"1">>     -> 1000
      [] header = <<"3", "0">> -> 30000

Reported == Len(response) = 1

\* C9, as claimed: every started run eventually sends its report.
C9_EventuallyReports == <>Reported

\* The service's last answer keeps the handler where it is: a 429, or a page
\* of playlist items with a next cursor.
Stalling == lastStatus = 429 \/ nextUrl # Null

\* C9, amended: every started run eventually sends its report unless the
\* service answers with 429s or next cursors again and again for ever.
C9_ReportsUnlessStalled == (<>[]~Stalling) => <>Reported

\* C9 witness: the run reported although its last request had been answered
\* 429 and re-issued, after a listing that returned playlist items.
C9_Witness ==
    /\ pc = "Done" /\ Reported
    /\ retried /\ req.url.endpoint = "append"
    /\ existingUris # {}

\* C10: candidates are resolved one at a time in list order; never two
\* resolve requests in flight; before every resolve call but the first the
\* inter-candidate delay has elapsed since the earlier call returned.
C10_SequentialWithDelay ==
    /\ inflight <= 1
    /\ (pc = "Resolve" /\ rq # "idle") =>
          /\ idx \in 1..Len(allCandidates)
          /\ req.url = LookupUrl(allCandidates[idx],
                                 IF allCandidates[idx].spotifyTrackId # Null
                                 THEN "tracks" ELSE "search")
          /\ idx > 1 => sleptSince = POST_PROCESS_DELAY_MS
    /\ pc = "ResolveSleep" => (rq = "idle" /\ inflight = 0)

\* C10 witness: the second candidate is being looked up after the first one
\* gave no track.
C10_Witness ==
    /\ pc = "Resolve" /\ rq = "await" /\ idx = 2
    /\ matchedTracks = <<>>
    /\ sleptSince = POST_PROCESS_DELAY_MS


\* Concatenation of the logged batches.
RECURSIVE Flatten(_)
Flatten(batches) ==
    IF Len(batches) = 0 THEN <<>> ELSE Head(batches) \o Flatten(Tail(batches))

\* The URIs of the input that the playlist did not hold before the first call.
NotYetMembers ==
    SelectSeq(fnIn.trackUris,
              LAMBDA u : \A k \in 1..Len(fnIn.before) : fnIn.before[k] # u)

\* The first call on the playlist is running, or has just ended.
FirstAppendCall == ap.pc # "idle" /\ Len(apOut) <= (IF ap.pc = "done" THEN 1 ELSE 0)

\* C11: the URIs not yet members go out in batches of at most 100, in input
\* order, each in exactly one batch; a call that returns has posted
\* ceil(n/100) batches, and 250 new URIs go out as 100, 100 and 50.
C11_BatchesOfHundred ==
    FirstAppendCall =>
        /\ \A b \in 1..Len(appendLog) : Len(appendLog[b]) \in 1..100
        /\ Len(Flatten(appendLog)) <= Len(NotYetMembers)
        /\ Flatten(appendLog) = SubSeq(NotYetMembers, 1, Len(Flatten(appendLog)))
        /\ (ap.pc = "done" /\ ~apOut[1].thrown) =>
              /\ Flatten(appendLog) = NotYetMembers
              /\ Len(appendLog) = (Len(NotYetMembers) + 99) \div 100
              /\ Len(NotYetMembers) = 250 =>
                    <<Len(appendLog[1]), Len(appendLog[2]), Len(appendLog[3])>>
                        = <<100, 100, 50>>

\* C11 witness: 250 new URIs were posted in three batches of 100, 100 and 50.
C11_Witness ==
    /\ FirstAppendCall /\ ap.pc = "done" /\ ~apOut[1].thrown
    /\ Len(NotYetMembers) = 250
    /\ Len(appendLog) = 3 /\ Len(appendLog[3]) = 50

\* C12: with none of the N input URIs on the playlist beforehand and no
\* failure, the first call returns added = N, skipped = 0, the second
\* added = 0, skipped = N without posting anything; every call that returns
\* has added + skipped = N.
C12_SecondCallAddsNothing ==
    /\ \A c \in 1..Len(apOut) :
          ~apOut[c].thrown => apOut[c].added + apOut[c].skipped = Len(fnIn.trackUris)
    /\ (/\ Len(NotYetMembers) = Len(fnIn.trackUris)
        /\ Len(apOut) >= 1 /\ ~apOut[1].thrown) =>
          /\ apOut[1] = AppendResult(Len(fnIn.trackUris), 0)
          /\ Len(apOut) = 1 => (appendLog = <<>> \/ ap.pc = "done")
          /\ (Len(apOut) >= 2 /\ ~apOut[2].thrown) =>
                /\ apOut[2] = AppendResult(0, Len(fnIn.trackUris))
                /\ Len(apOut) = 2 => appendLog = <<>>

\* C12 witness: 250 URIs were added by the first call and all skipped by the
\* second, which read the playlist in three pages.
C12_Witness ==
    /\ Len(fnIn.trackUris) = 250 /\ fnIn.before = <<>>
    /\ Len(apOut) = 2
    /\ apOut[1] = AppendResult(250, 0)
    /\ apOut[2] = AppendResult(0, 250)
    /\ ap.offset = 200 /\ appendLog = <<>>

\* getAccessToken has returned a token, or has thrown.
TokenReturned == fnIn.f = "getAccessToken" /\ pc = "GatherRawLinks"
TokenThrown == fnIn.f = "getAccessToken" /\ pc = "Done"
\* The cache the call found holds a token good for 60 s beyond the call.
GoodForBuffer ==
    fnIn.cache.token # Null /\ fnIn.now < fnIn.cache.expiresAt - 60000

\* C13: getAccessToken returns the cached token with no request iff a token
\* is cached and now < expiry - 60 s; otherwise it sends one refresh request,
\* on success stores and returns the new token with its expiry, on failure
\* throws with the cache as it was.
C13_CacheOrOneRefresh ==
    /\ [](fnIn.f = "getAccessToken" =>
            /\ inflight <= 1
            /\ (stages # <<>>) => (GoodForBuffer <=> issued = {})
            /\ (stages # <<>> /\ GoodForBuffer) =>
                  (TokenReturned /\ spotifyToken = fnIn.cache.token
                                 /\ tokenCache = fnIn.cache)
            /\ (TokenReturned /\ ~GoodForBuffer) =>
                  /\ issued = {"token"}
                  /\ spotifyToken \notin {Null, fnIn.cache.token}
                  /\ tokenCache = [token |-> spotifyToken,
                                   expiresAt |-> fnIn.now + 3600 * 1000]
            /\ TokenThrown =>
                  /\ tokenCache = fnIn.cache /\ spotifyToken = Null
                  /\ Len(response) = 1 /\ ~response[1].success
            /\ (rq = "await" \/ TokenThrown) => ~GoodForBuffer)
    /\ [][(fnIn.f = "getAccessToken" /\ inflight' > inflight) =>
             (issued = {} /\ issued' = {"token"})]_vars

\* C13 witness: a cached token with less than the buffer left was replaced
\* by a refreshed one.
C13_Witness ==
    /\ TokenReturned
    /\ fnIn.cache.token # Null
    /\ fnIn.now < fnIn.cache.expiresAt
    /\ fnIn.now >= fnIn.cache.expiresAt - 60000
    /\ issued = {"token"} /\ tokenCache.token # fnIn.cache.token

\* "YYYY-MM" of a year of four digits and a month 1..12, digit by digit.
YearMonthKey(y, m) ==
    <<DigitChars[(y \div 1000) + 1], DigitChars[((y \div 100) % 10) + 1],
      DigitChars[((y \div 10) % 10) + 1], DigitChars[(y % 10) + 1], "-",
      DigitChars[(m \div 10) + 1], DigitChars[(m % 10) + 1]>>

\* C14: getPreviousMonthBounds(now) is the calendar month before now's UTC
\* month: December of the year before for a January instant, month in 1..12,
\* yearMonth the zero-padded "YYYY-MM"; a run computes it once and uses that
\* value for the link lookup, the release filter and the playlist name.
C14_PreviousMonthUsedThroughout ==
    /\ [](/\ (fnIn.f = "getPreviousMonthBounds" /\ fnOut # NoResult) =>
               LET r == fnOut[1]
                   y == fnIn.now.year
                   m == fnIn.now.month IN
               /\ r.month \in 1..12
               /\ m = 0 => (r.month = 12 /\ r.year = y - 1)
               /\ m > 0 => (r.month = m /\ r.year = y)
               /\ r.yearMonth = YearMonthKey(r.year, r.month)
               /\ r.monthName = MONTH_NAMES[r.month]
          /\ (fnIn.f = "none" /\ monthInfo # NoMonth) =>
               /\ monthInfo.month \in 1..12
               /\ monthInfo.yearMonth = YearMonthKey(monthInfo.year, monthInfo.month)
               /\ linksMonth \in {NoStr, monthInfo.yearMonth}
               /\ links # <<>> => linksMonth = monthInfo.yearMonth
               /\ \A k \in 1..Len(matchedTracks) :
                     SubSeq(matchedTracks[k].releaseDate, 1, 7) = monthInfo.yearMonth
               /\ (rq # "idle" /\ req.url.endpoint = "create") =>
                     req.body = <<"Digital Diggaz", MONTH_NAMES[monthInfo.month]>>
                                   \o SubSeq(monthInfo.yearMonth, 1, 4))
    /\ [][monthInfo # NoMonth => monthInfo' = monthInfo]_vars

\* C14 witness: a January instant gave December of the year before.
C14_Witness ==
    /\ fnIn.f = "getPreviousMonthBounds" /\ fnOut # NoResult
    /\ fnIn.now = [year |-> 2026, month |-> 0]
    /\ fnOut[1].yearMonth = <<"2", "0", "2", "5", "-", "1", "2">>
    /\ fnOut[1].monthName = "December"

\* C15: the list extractUrls returns holds no URL twice, trailing
\* punctuation stripped; null or empty input gives the empty list.
C15_NoUrlTwice ==
    (fnIn.f = "extractUrls" /\ fnOut # NoResult) =>
        /\ \A a, b \in 1..Len(fnOut[1]) : a # b => fnOut[1][a] # fnOut[1][b]
        /\ (fnIn.text = NoStr \/ fnIn.text = <<>>) => fnOut[1] = <<>>

\* The platform each pattern of MUSIC_URL_PATTERNS belongs to.
PatternPlatforms ==
    <<"youtube", "youtube", "soundcloud", "spotify", "spotify", "bandcamp",
      "apple_music", "tidal", "deezer">>

\* C16: the tag of an accepted URL is the platform of the pattern that
\* matched it, and a track id is extracted only for a host of the primary
\* service followed by /track/; a domain named in the query changes neither.
C16_TagOfMatchedPattern ==
    (fnIn.f = "extractMusicUrls" /\ fnOut # NoResult /\ isMusicUrl(fnIn.url)) =>
        /\ Len(fnOut[1]) = 1
        /\ \A k \in 1..Len(MUSIC_URL_PATTERNS) :
              (/\ Lower(fnIn.url[2]) \in MUSIC_URL_PATTERNS[k].hosts
               /\ PatternTest(MUSIC_URL_PATTERNS[k], fnIn.url)) =>
                  fnOut[1][1].platform = PatternPlatforms[k]
        /\ fnOut[1][1].spotifyTrackId # Null <=>
              (/\ Lower(fnIn.url[2]) \in {"open.spotify.com", "spotify.com", "www.spotify.com"}
               /\ fnIn.url[3] = "/track/")

\* A hint that is given: neither null nor the empty string.
Given(hint) == hint # NoStr /\ hint # <<>>

\* C17: with both hints the query is "track:<track> artist:<artist>"; with
\* one hint it is scoped by that field and the raw query is appended; with
\* none it is the raw query.
C17_QueryFromHints ==
    (fnIn.f = "searchTrack" /\ fnOut # NoResult) =>
        LET q == fnIn.query
            a == fnIn.artist
            t == fnIn.track IN
        /\ (Given(a) /\ Given(t)) =>
              fnOut[1] = <<"track:">> \o t \o <<" artist:">> \o a
        /\ (Given(a) /\ ~Given(t)) =>
              fnOut[1] = <<"artist:">> \o a \o <<" ">> \o q
        /\ (~Given(a) /\ Given(t)) =>
              fnOut[1] = <<"track:">> \o t \o <<" ">> \o q
        /\ (~Given(a) /\ ~Given(t)) => fnOut[1] = q

\* Positions of the dashes of a text that separate: text on both sides.
Separators(c) == {d \in 2..(Len(c) - 1) : c[d] \in Dashes}
\* The text without the blanks at its ends.
Unpadded(c) ==
    LET keep == {k \in 1..Len(c) : c[k] # " "} IN
    IF keep = {} THEN <<>>
    ELSE SubSeq(c, CHOOSE x \in keep : \A y \in keep : x <= y,
                   CHOOSE x \in keep : \A y \in keep : x >= y)
\* " by " occurs in the text.
HasBy(c) == \E k \in 2..(Len(c) - 1) : c[k] = "by" /\ c[k - 1] = " " /\ c[k + 1] = " "

DaftPunkSubmitted ==
    /\ fnOut # NoResult
    /\ \/ /\ fnIn.f = "extractMusicFromPost"
          /\ fnIn.post = [message |-> DaftPunkText, story |-> NoStr, link |-> NoStr]
       \/ /\ fnIn.f = "extractMusicUrls"
          /\ fnIn.url = DaftPunkText

\* C19: the text "Check out Daft Punk - Around The World" with no URL gives
\* exactly one candidate, text-only (no URL, no direct track id), with
\* artist "Daft Punk" and track "Around The World".
C19_DaftPunkTextOnly ==
    DaftPunkSubmitted =>
        /\ Len(fnOut[1]) = 1
        /\ fnOut[1][1].url = NoStr
        /\ fnOut[1][1].spotifyTrackId = Null
        /\ fnOut[1][1].artist = <<"Daft", " ", "Punk">>
        /\ fnOut[1][1].track = <<"Around", " ", "The", " ", "World">>

\* C20: whatever the interleaving of submit-links requests, a month has at
\* most one stored document and its links list holds no URL twice.
C20_OneDocumentNoLinkTwice ==
    /\ \A k, l \in 1..Len(submittedLinks) :
          submittedLinks[k].month = submittedLinks[l].month => k = l
    /\ \A k \in 1..Len(submittedLinks) :
          \A i, j \in 1..Len(submittedLinks[k].links) :
              submittedLinks[k].links[i] = submittedLinks[k].links[j] => i = j

\* The request carries the configured ADMIN_SECRET in its Authorization header.
CarriesAdminSecret ==
    /\ ~Falsy(fnIn.adminSecret) /\ ~Falsy(fnIn.authorization)
    /\ \E k \in 1..Len(fnIn.authorization) : <<fnIn.authorization[k]>> = fnIn.adminSecret

\* C21: a request to the admin endpoint without the valid ADMIN_SECRET is
\* never answered with the full value of a stored credential, and with
\* showSecrets=true it is answered 401 (when a config is found); without a
\* configured ADMIN_SECRET nothing is authorized; the list view carries no
\* credential values.
C21_NoSecretWithoutAdminSecret ==
    (fnIn.f = "admin" /\ fnOut # NoResult /\ ~CarriesAdminSecret) =>
        /\ \A k \in 1..Len(fnOut[1].config) :
              \A key \in DOMAIN fnOut[1].config[k].vars :
                  \A d \in 1..Len(fnIn.stored) :
                      fnOut[1].config[k].vars[key] # fnIn.stored[d].vars[key]
        /\ \A k \in 1..Len(fnOut[1].configs) :
              DOMAIN fnOut[1].configs[k] = {"projectId"}

\* C22: verify answers 200 to a Bearer token that login issued within the
\* last 24 hours, and 401 to a request without a Bearer header, with a token
\* never issued, or with a token older than 24 hours.
C22_TokenGoodForADay ==
    \A k \in 1..Len(api.res) :
        LET r == api.res[k] IN
        r.endpoint = "verify" =>
            /\ (/\ ~Falsy(r.header) /\ r.header[1] = "Bearer "
                /\ \E i \in api.issued :
                      i.token = r.token /\ r.at < i.at + TOKEN_TTL_HOURS)
               => r.status = 200
            /\ (\/ Falsy(r.header) \/ r.header[1] # "Bearer "
                \/ \A i \in api.issued :
                      i.token = r.token => r.at > i.at + TOKEN_TTL_HOURS)
               => r.status = 401

\* The keys of the section a request does not name.
OtherSectionKeys(section) ==
    IF section = <<"facebook">> THEN Range(SPOTIFY_KEYS)
    ELSE IF section = <<"spotify">> THEN Range(FACEBOOK_KEYS) ELSE {}

\* C23: a save of section 'spotify' or 'facebook' leaves every stored key of
\* the other section as it was, whatever the interleaving, and a request
\* answered 400 stores nothing.
C23_OtherSectionUntouched ==
    \A r \in DOMAIN api :
        /\ api[r].wrote =>
              \A key \in OtherSectionKeys(api[r].section) :
                  api[r].after[key] = api[r].before[key]
        /\ api[r].status = 400 => ~api[r].wrote

\* C30: only a save-config request that carries a session token issued by
\* login changes the stored configuration.
C30_SaveNeedsSessionToken ==
    \A r \in DOMAIN api :
        api[r].wrote =>
            /\ ~Falsy(api[r].authorization)
            /\ api[r].authorization[1] = "Bearer "
            /\ api[r].authorization[2] \in validTokens

\* The stored vote count of a track in a votes hash.
VoteCount(hash, trackId) ==
    IF Hget(hash, trackId) = <<>> THEN 0 ELSE Parsed(Hget(hash, trackId)[1]).votes
\* The POST requests for a track that were answered 200.
SuccessfulVotes(trackId) ==
    {r \in DOMAIN api.req :
        /\ api.req[r].method = "POST" /\ api.req[r].trackId = trackId
        /\ api.req[r].pc = "done" /\ api.req[r].status = 200}

\* C24: once no request is under way and none has failed, the stored count
\* of every track is its count before the requests plus the number of
\* successful votes for it; the results of a GET are ordered by votes,
\* highest first.
C24_EveryVoteCounts ==
    /\ (\A r \in DOMAIN api.req :
            api.req[r].pc \in {"new", "done"} /\ api.req[r].status \notin {500, 503}) =>
          \A t \in VoteTracks :
              VoteCount(votes, t) = VoteCount(api.base, t) + Cardinality(SuccessfulVotes(t))
    /\ \A r \in DOMAIN api.req :
          \A i, j \in 1..Len(api.req[r].results) :
              i < j => api.req[r].results[i].votes >= api.req[r].results[j].votes

\* The ids of the matched set.
MatchedIds(matched) == {matched[i].id : i \in 1..Len(matched)}

\* C25: the matched set holds at most one entry per track id; when a lookup
\* returns a track, an id not held yet is added at the end as that track and
\* an id held already changes nothing; entries are never changed or
\* removed; tracksMatched is the number of ids held.
C25_FirstOccurrenceWins ==
    /\ [](/\ \A i, j \in 1..Len(matchedTracks) :
                matchedTracks[i].id = matchedTracks[j].id => i = j
          /\ (pc \in {"CreateCollection", "ListItems", "ListSleep", "AppendTracks",
                      "AppendBatch"}
                 \/ (pc = "Done" /\ idx > Len(allCandidates) /\ Len(allCandidates) > 0)) =>
                /\ stats.tracksMatched = Cardinality(MatchedIds(matchedTracks))
                /\ \A k \in 1..Len(response) :
                      response[k].stats.tracksMatched = stats.tracksMatched)
    /\ [][/\ SubSeq(matchedTracks', 1, Len(matchedTracks)) = matchedTracks
          /\ (pc = "Resolve" /\ pc' = "ResolveSleep" /\ track' # <<>>) =>
                IF track'[1].id \in MatchedIds(matchedTracks)
                THEN matchedTracks' = matchedTracks
                ELSE matchedTracks' = Append(matchedTracks, track'[1])
          /\ ~(pc = "Resolve" /\ pc' = "ResolveSleep" /\ track' # <<>>) =>
                matchedTracks' = matchedTracks]_vars

\* C25 witness: the second candidate resolved to the id the matched set
\* holds, and the set holds it once.
C25_Witness ==
    /\ pc = "ResolveSleep" /\ idx = 2 /\ track # <<>>
    /\ Len(matchedTracks) = 1 /\ matchedTracks[1].id = track[1].id

\* C26: extractMusicUrls returns one candidate for a recognized music URL
\* and none otherwise, and no candidate's search query is its URL.
C26_OneCandidateQueryNotUrl ==
    (fnIn.f = "extractMusicUrls" /\ fnOut # NoResult) =>
        /\ Len(fnOut[1]) = IF isMusicUrl(StripTrailingPunct(Trim(fnIn.url))) THEN 1 ELSE 0
        /\ \A k \in 1..Len(fnOut[1]) : fnOut[1][k].searchQuery # fnOut[1][k].url

\* C27: the tracksAdded the handler reports after addTracksToPlaylist has
\* returned or thrown is the number of URIs the call appended.
C27_TracksAddedIsAppended ==
    (ap.pc = "done" /\ apOut # <<>>) =>
        StatsOfAppend(stats, apOut[Len(apOut)]).tracksAdded = Len(Flatten(appendLog))


(******************** the run's token against the clock ********************)
\* The run of Spec timed by authNow, Date.now() in ms.  getAccessToken
\* reads the clock once, at step 3; the sleep of a rate-limited request
\* lasts the Retry-After it was given and every other step is taken to cost
\* no time, so authNow is a lower bound of the time a request is sent at.
\* The service of this run asks for the longest of the Retry-After delays.
MaxClock == 90000
RunStarts == {29000, 30000}

InitTimed ==
    /\ configDoc \in ConfigDocs
    /\ tokenCache \in TokenCaches
    /\ InitRun
    /\ fnIn = NoFn /\ fnOut = NoResult
    /\ AppendIdle /\ SubmitIdle
    /\ validTokens = {} /\ storedVars = <<>> /\ votes = <<>> /\ api = <<>>
    /\ authNow \in RunStarts

\* const spotifyToken = await getAccessToken(config.spotify)
AuthenticateNow == AuthenticateAt(authNow)
TokenResponseNow == TokenResponseAt(authNow)

\* Status 429 with Retry-After: 30.
RateLimitedLong == RateLimited /\ retryAfter' = <<"3", "0">>

\* await sleep(retryAfter * 1000)
RateLimitSleep ==
    /\ rq = "backoff" /\ backoffMs > 0
    /\ authNow < MaxClock
    /\ authNow' = authNow + backoffMs
    /\ backoffMs' = 0
    /\ UNCHANGED <<rq, call, req, prevReq, retried, retryAfter, lastStatus,
                   inflight, issued>>
    /\ UNCHANGED <<envVars, pc, runVars, pubVars, outVars, fnIn, fnOut,
                   appendVars, submitVars, validTokens, storedVars, votes, api>>

\* The recursive call follows the sleep.
RetryAfterSleep == backoffMs = 0 /\ RetryRequest

NextTimed ==
    \/ LoadConfig
    \/ ComputeTargetMonth
    \/ AuthenticateNow
    \/ TokenResponseNow
    \/ GatherRawLinks
    \/ ExtractCandidates
    \/ ProcessCandidate
    \/ LookupFailed
    \/ LookupAnswered
    \/ InterCandidateSleep
    \/ FinishResolve
    \/ CreatePlaylist
    \/ CreateAnswered
    \/ AddTracksToPlaylist
    \/ ListAnswered
    \/ ListNextPage
    \/ BatchAnswered
    \/ PublishFailed
    \/ RateLimitedLong
    \/ RateLimitSleep
    \/ RetryAfterSleep

SpecTimed == InitTimed /\ [][NextTimed]_vars

\* C28: a request the run sends to the streaming service carries the cached
\* access token, and the clock has not reached that token's expiry.
C28_TokenNotExpiredWhenSent ==
    (rq = "await" /\ pc # "Authenticate") =>
        /\ req.token = tokenCache.token
        /\ authNow < tokenCache.expiresAt


\* C29: in every report of a run tracksMatched <= musicCandidates <=
\* linksSubmitted, and in every success report that carries a playlist
\* tracksAdded + tracksSkipped = tracksMatched.
C29_StatsConsistent ==
    \A k \in 1..Len(response) :
        LET st == response[k].stats IN
        /\ st.tracksMatched <= st.musicCandidates
        /\ st.musicCandidates <= st.linksSubmitted
        /\ (response[k].success /\ response[k].playlist # <<>>) =>
              st.tracksAdded + st.tracksSkipped = st.tracksMatched

\* C29 witness: a success report with a playlist, one track appended and
\* one skipped as already listed.
C29_Witness ==
    \E k \in 1..Len(response) :
        /\ response[k].success /\ response[k].playlist # <<>>
        /\ response[k].stats.tracksAdded = 1 /\ response[k].stats.tracksSkipped = 1
        /\ response[k].stats.tracksMatched = 2 /\ response[k].stats.linksSubmitted = 2

=============================================================================
